---- MODULE Spec2Model ----
(***************************************************************************)
(* Layout engine of the timeline canvas (TimelineCanvas, "Calculate Layout *)
(* (Multi-Pass)"): Pass 1 packs bars into rows, Pass 2 places the floating *)
(* labels of short events in the gap above or below the bar and relocates  *)
(* the bar when both gaps are blocked, Pass 3 audits the result.           *)
(*                                                                         *)
(* Units.  The code works in years with fractional widths (pixels / 10).   *)
(* The model keeps every horizontal quantity in pixels, i.e. in tenths of  *)
(* a year (year * BASE_PIXELS_PER_YEAR), so that all of them are integers. *)
(* Bar levels are row indices; label levels (k - 0.5, k + 0.5) are kept in *)
(* half rows (2 * labelLevel), so gap k + 0.5 is the integer 2k + 1.       *)
(* Strings are represented by their length, the only thing the layout      *)
(* reads of them.                                                          *)
(***************************************************************************)
EXTENDS Integers, Sequences, FiniteSets, TLC

VARIABLES figures, priorityIds, now, pc, sortedFigures, idx,
          occupiedRows, occupiedGaps, tempLayout, placedVectors,
          currentBarLevel, relocationAttempts, totalRows, consoleLog,
          detected, pass1Level, prevRun,
          \* discovery action bar of the canvas (hover handlers)
          isDiscovering, isBusy, relationshipState, hoveredFigureId,
          actionBarCoords, hoverTimerRef, hoverTimerFigure, hideTimerRef,
          orphanHideTimers, pointerOver, leftEarly,
          \* request queue of services/utils.ts
          requestQueue, slots, scenario

\* the state of the discovery action bar
uiVars == <<isDiscovering, isBusy, relationshipState, hoveredFigureId,
            actionBarCoords, hoverTimerRef, hoverTimerFigure, hideTimerRef,
            orphanHideTimers, pointerOver, leftEarly>>

\* the state of the request queue
netVars == <<requestQueue, slots, scenario>>

\* the state of the layout computation
layoutVars == <<figures, priorityIds, now, pc, sortedFigures, idx,
                occupiedRows, occupiedGaps, tempLayout, placedVectors,
                currentBarLevel, relocationAttempts, totalRows, consoleLog,
                detected, pass1Level, prevRun>>

vars == <<layoutVars, uiVars, netVars>>

(***************************************************************************)
(* Program constants                                                       *)
(***************************************************************************)
BASE_PIXELS_PER_YEAR == 10
ROW_HEIGHT == 180
FONT_SIZE_NAME == 22
FONT_SIZE_DATE == 18
FONT_SIZE_OCCUPATION == 18
\* character width multipliers, in hundredths (0.82, 0.78, 0.75)
CHAR_WIDTH_UPPERCASE == 82
CHAR_WIDTH_BOLD == 78
CHAR_WIDTH_CAPITALIZE == 75
MIN_FLOATING_WIDTH_PX == 200
LABEL_MARGIN == 10
MARGIN == 6
MAX_ROWS_TO_SEARCH == 20
MAX_RELOCATION_ATTEMPTS == 10
OVERLAP_THRESHOLD == 2
SHORT_DURATION == 15
EXCLUDE_DURATION == 3

(***************************************************************************)
(* Bounds of the model                                                     *)
(***************************************************************************)
\* number of figures in an input list chosen one by one
MaxItems == 3
\* number of figures chosen one by one behind a block of identical figures
MaxCrowdTail == 2
\* the year the clock shows when the first layout is computed
CurrentYear == 2026
\* number of items and highest bar row of a layout handed to Pass 3 on its own
MaxAudit == 4
MaxAuditRow == 1

(***************************************************************************)
(* Arithmetic helpers                                                      *)
(***************************************************************************)
Max(a, b) == IF a >= b THEN a ELSE b

Abs(a) == IF a < 0 THEN -a ELSE a

\* Math.ceil(n / 100) for n >= 0
CeilHundredths(n) == (n + 99) \div 100

RECURSIVE DigitCount(_)
DigitCount(n) == IF n < 10 THEN 1 ELSE 1 + DigitCount(n \div 10)

\* formatYear(year).length: "<abs> BC" for negative years, digits otherwise
formatYear(year) == IF year < 0 THEN DigitCount(-year) + 3 ELSE DigitCount(year)

(***************************************************************************)
(* Geometry                                                                *)
(***************************************************************************)
\* n / d strictly inside (0.05, 0.95), d # 0, by cross multiplication
StrictlyInside(n, d) ==
    IF d > 0 THEN 20 * n > d /\ 20 * n < 19 * d
             ELSE 20 * n < d /\ 20 * n > 19 * d

linesIntersectLoose(p1, p2, p3, p4) ==
    LET denom == (p4.y - p3.y) * (p2.x - p1.x) - (p4.x - p3.x) * (p2.y - p1.y)
    IN  denom # 0

linesIntersectTouching(p1, p2, p3, p4) ==
    LET denom == (p4.y - p3.y) * (p2.x - p1.x) - (p4.x - p3.x) * (p2.y - p1.y)
        ua    == (p4.x - p3.x) * (p1.y - p3.y) - (p4.y - p3.y) * (p1.x - p3.x)
        ub    == (p2.x - p1.x) * (p1.y - p3.y) - (p2.y - p1.y) * (p1.x - p3.x)
        Within(n, d) == IF d > 0 THEN n >= 0 /\ n <= d ELSE n <= 0 /\ n >= d
    IN  IF denom = 0 THEN FALSE
        ELSE Within(ua, denom) /\ Within(ub, denom)

linesIntersect(p1, p2, p3, p4) ==
    LET denom == (p4.y - p3.y) * (p2.x - p1.x) - (p4.x - p3.x) * (p2.y - p1.y)
        ua    == (p4.x - p3.x) * (p1.y - p3.y) - (p4.y - p3.y) * (p1.x - p3.x)
        ub    == (p2.x - p1.x) * (p1.y - p3.y) - (p2.y - p1.y) * (p1.x - p3.x)
    IN  IF denom = 0 THEN FALSE
        ELSE StrictlyInside(ua, denom) /\ StrictlyInside(ub, denom)

IntervalHitsNoMargin(start, end, interval, margin) ==
    start < interval.end /\ end > interval.start

\* interval test used by every placement decision (margin in pixels)
IntervalHits(start, end, interval, margin) ==
    start < interval.end + margin /\ end + margin > interval.start

(***************************************************************************)
(* Width estimator                                                         *)
(***************************************************************************)
Duration(fig) == fig.deathYear - fig.birthYear

IsShortEvent(fig) == fig.category = "EVENTS" /\ Duration(fig) < SHORT_DURATION

\* totalWidthPx of calculateTextWidth; year is the value of
\* new Date().getFullYear() at the moment of the call
calculateTextWidth(fig, includeDate, year) ==
    LET nameWidthPx == CeilHundredths(fig.name * FONT_SIZE_NAME * CHAR_WIDTH_UPPERCASE)
        occupationWidthPx ==
            CeilHundredths(fig.occupation * FONT_SIZE_OCCUPATION * CHAR_WIDTH_CAPITALIZE)
        startYStr == formatYear(fig.birthYear)
        endShown == fig.deathYear < year
        dateTextLength ==
            startYStr + (IF endShown THEN formatYear(fig.deathYear) + 3 ELSE 2)
        dateWidthPx ==
            IF includeDate
            THEN CeilHundredths(dateTextLength * FONT_SIZE_DATE * CHAR_WIDTH_BOLD) + 60
            ELSE 0
        dateAndOccupationWidthPx == dateWidthPx + occupationWidthPx + 15
    IN  Max(nameWidthPx, dateAndOccupationWidthPx)

\* calculateOccupiedWidth, in pixels (the code returns pixels / 10 years)
calculateOccupiedWidth(fig, forFloatingLabel, year) ==
    IF ~forFloatingLabel /\ IsShortEvent(fig)
    THEN Duration(fig) * BASE_PIXELS_PER_YEAR
    ELSE IF forFloatingLabel
    THEN Max(calculateTextWidth(fig, TRUE, year), MIN_FLOATING_WIDTH_PX) + 8
         + 5 * BASE_PIXELS_PER_YEAR
    ELSE Max(calculateTextWidth(fig, TRUE, year),
             Max(Duration(fig) * BASE_PIXELS_PER_YEAR, 40)) + 4
         + 5 * BASE_PIXELS_PER_YEAR

\* fig.birthYear on the pixel axis
StartPx(fig) == fig.birthYear * BASE_PIXELS_PER_YEAR

\* horizontalOffset = duration / 2 + 3 years, in pixels
HorizontalOffset(fig) ==
    (Duration(fig) * BASE_PIXELS_PER_YEAR) \div 2 + 3 * BASE_PIXELS_PER_YEAR

(***************************************************************************)
(* Occupancy helpers of Pass 2                                             *)
(***************************************************************************)
\* rows (or gaps) extended with empty entries until index n exists (0-based)
PadTo(lists, n) ==
    IF Len(lists) > n THEN lists
    ELSE lists \o [i \in 1..(n + 1 - Len(lists)) |-> <<>>]

\* intervals.some(...) over the intervals of one row or gap
SomeHit(intervals, start, end, margin) ==
    \E k \in 1..Len(intervals) : IntervalHits(start, end, intervals[k], margin)

tryPlaceLabelInGapNoOverlapCheck(figure, gapLevel, horizontalOffset, labelWidth, barLevel, gaps, vectors) ==
    LET gapIndex   == gapLevel \div 2
        labelStart == StartPx(figure) + horizontalOffset
        visualY    == gapIndex * ROW_HEIGHT + 175
        hasVectorCrossing ==
            \E v \in 1..Len(vectors) :
                linesIntersect([x |-> StartPx(figure), y |-> barLevel * ROW_HEIGHT + 80],
                               [x |-> labelStart, y |-> visualY],
                               [x |-> vectors[v].x1, y |-> vectors[v].y1],
                               [x |-> vectors[v].x2, y |-> vectors[v].y2])
    IN  IF gapLevel < 0 \/ hasVectorCrossing THEN [success |-> FALSE, visualY |-> 0]
        ELSE [success |-> TRUE, visualY |-> visualY]

tryPlaceLabelInGapAnyLevel(figure, gapLevel, horizontalOffset, labelWidth, barLevel, gaps, vectors) ==
    LET gapIndex   == gapLevel \div 2
        labelStart == StartPx(figure) + horizontalOffset
        hasOverlap ==
            /\ gapIndex >= 0
            /\ gapIndex < Len(gaps)
            /\ SomeHit(gaps[gapIndex + 1], labelStart, labelStart + labelWidth,
                       LABEL_MARGIN * BASE_PIXELS_PER_YEAR)
        visualY    == gapIndex * ROW_HEIGHT + 175
        hasVectorCrossing ==
            \E v \in 1..Len(vectors) :
                linesIntersect([x |-> StartPx(figure), y |-> barLevel * ROW_HEIGHT + 80],
                               [x |-> labelStart, y |-> visualY],
                               [x |-> vectors[v].x1, y |-> vectors[v].y1],
                               [x |-> vectors[v].x2, y |-> vectors[v].y2])
    IN  IF hasOverlap \/ hasVectorCrossing THEN [success |-> FALSE, visualY |-> 0]
        ELSE [success |-> TRUE, visualY |-> visualY]

\* gapLevel and the result's label level are in half rows; the result is
\* [success, visualY]
tryPlaceLabelInGap(figure, gapLevel, horizontalOffset, labelWidth, barLevel, gaps, vectors) ==
    LET gapIndex   == gapLevel \div 2
        labelStart == StartPx(figure) + horizontalOffset
        labelEnd   == labelStart + labelWidth
        hasOverlap ==
            /\ gapIndex >= 0
            /\ gapIndex < Len(gaps)
            /\ SomeHit(gaps[gapIndex + 1], labelStart, labelEnd,
                       LABEL_MARGIN * BASE_PIXELS_PER_YEAR)
        visualY    == gapIndex * ROW_HEIGHT + 175
        barVecX    == StartPx(figure)
        barVecY    == barLevel * ROW_HEIGHT + 80
        labelVecX  == labelStart
        hasVectorCrossing ==
            \E v \in 1..Len(vectors) :
                linesIntersect([x |-> barVecX, y |-> barVecY],
                               [x |-> labelVecX, y |-> visualY],
                               [x |-> vectors[v].x1, y |-> vectors[v].y1],
                               [x |-> vectors[v].x2, y |-> vectors[v].y2])
    IN  IF gapLevel < 0 THEN [success |-> FALSE, visualY |-> 0]
        ELSE IF hasOverlap THEN [success |-> FALSE, visualY |-> 0]
        ELSE IF hasVectorCrossing THEN [success |-> FALSE, visualY |-> 0]
        ELSE [success |-> TRUE, visualY |-> visualY]

\* least element of a set of indices, 0 for the empty set (findIndex)
FirstIndex(S) == IF S = {} THEN 0 ELSE CHOOSE k \in S : \A j \in S : k <= j

RemoveAt(s, k) == [i \in 1..(Len(s) - 1) |-> IF i < k THEN s[i] ELSE s[i + 1]]

removeBarIntervalDropRow(level, barStart, rows) ==
    IF level < 0 \/ level >= Len(rows) THEN rows
    ELSE LET intervals == rows[level + 1]
             barIndex  == FirstIndex({k \in 1..Len(intervals) :
                              /\ intervals[k].type = "bar"
                              /\ Abs(intervals[k].start - barStart) < 1})
         IN  IF barIndex = 0 THEN rows
             ELSE IF Len(intervals) = 1 THEN RemoveAt(rows, level + 1)
             ELSE [rows EXCEPT ![level + 1] = RemoveAt(@, barIndex)]

\* the rows after removeBarInterval(level, barStartYear, occupiedRows)
removeBarInterval(level, barStart, rows) ==
    IF level < 0 \/ level >= Len(rows) THEN rows
    ELSE LET intervals == rows[level + 1]
             barIndex  == FirstIndex({k \in 1..Len(intervals) :
                              /\ intervals[k].type = "bar"
                              /\ Abs(intervals[k].start - barStart) < 1})
         IN  IF barIndex = 0 THEN rows
             ELSE [rows EXCEPT ![level + 1] = RemoveAt(@, barIndex)]

RECURSIVE SearchRows(_, _, _, _, _)
SearchRows(figure, searchLevel, endLevel, rows, barWidth) ==
    IF searchLevel >= endLevel THEN -1
    ELSE IF searchLevel < Len(rows)
    THEN IF ~SomeHit(rows[searchLevel + 1], StartPx(figure), StartPx(figure) + barWidth,
                     MARGIN * BASE_PIXELS_PER_YEAR)
         THEN searchLevel
         ELSE SearchRows(figure, searchLevel + 1, endLevel, rows, barWidth)
    ELSE searchLevel

findNextAvailableRowUnchecked(figure, startLevel, rows, barWidth) == startLevel

findNextAvailableRowBottom(figure, startLevel, rows, barWidth) == Max(startLevel, Len(rows))

findNextAvailableRow(figure, startLevel, rows, barWidth) ==
    SearchRows(figure, startLevel, startLevel + MAX_ROWS_TO_SEARCH, rows, barWidth)

addBarInterval(level, barStart, barWidth, rows) ==
    LET padded == PadTo(rows, level)
    IN  [padded EXCEPT ![level + 1] =
            Append(@, [start |-> barStart, end |-> barStart + barWidth, type |-> "bar"])]

recordLabelIntervalNextGap(gapLevel, labelStart, labelWidth, gaps) ==
    LET gapIndex == gapLevel \div 2 + 1
        padded   == PadTo(gaps, gapIndex)
    IN  [padded EXCEPT ![gapIndex + 1] =
            Append(@, [start |-> labelStart, end |-> labelStart + labelWidth])]

recordLabelInterval(gapLevel, labelStart, labelWidth, gaps) ==
    LET gapIndex == gapLevel \div 2
        padded   == PadTo(gaps, gapIndex)
    IN  [padded EXCEPT ![gapIndex + 1] =
            Append(@, [start |-> labelStart, end |-> labelStart + labelWidth])]

recordConnectorVector(figure, barLevel, labelYearOffset, labelVisualY, vectors) ==
    Append(vectors, [x1 |-> StartPx(figure),
                     y1 |-> barLevel * ROW_HEIGHT + 80,
                     x2 |-> StartPx(figure) + labelYearOffset,
                     y2 |-> labelVisualY])

(***************************************************************************)
(* Inputs: the figures handed to the canvas                                *)
(***************************************************************************)
Person(nameLen, occupationLen, birth, death) ==
    [name |-> nameLen, occupation |-> occupationLen,
     birthYear |-> birth, deathYear |-> death, category |-> "PEOPLE"]

Event(nameLen, occupationLen, birth, death) ==
    [name |-> nameLen, occupation |-> occupationLen,
     birthYear |-> birth, deathYear |-> death, category |-> "EVENTS"]

\* a standard element whose footprint ends before SecondEvent starts
EarlyPerson == Person(1, 0, 1975, 1990)
\* short events (floating labels); SecondEvent's bar fits beside FirstEvent's
\* on one row, their labels do not fit in one gap
FirstEvent  == Event(8, 5, 2000, 2010)
SecondEvent == Event(6, 5, 2020, 2023)
\* an event below the exclusion threshold
TinyEvent   == Event(4, 4, 2005, 2007)
\* a long event that is still going on when the layout is computed; its
\* footprint covers both short events
OngoingEvent == Event(10, 20, 1990, CurrentYear)
\* an element starting where OngoingEvent's footprint ends
FuturePerson == Person(10, 6, CurrentYear + 24, CurrentYear + 54)

\* a short event far from all the others: its label fits into a gap that
\* already holds FirstEvent's or SecondEvent's
LateEvent == Event(6, 5, 2100, 2110)

\* a standard element starting less than the audit threshold after the end
\* of EarlyPerson's footprint
NearPerson == Person(1, 0, 2004, 2019)

Catalogue == {EarlyPerson, FirstEvent, SecondEvent, TinyEvent, OngoingEvent,
              FuturePerson}

\* a block of identical figures in front of the chosen ones: none, as many
\* short events as the relocation budget, or as many long elements as the
\* row scan looks at, or a single far-away short event, or a single
\* standard element next to EarlyPerson
NoCrowd == [figure |-> FirstEvent, size |-> 0]
Crowds == {NoCrowd,
           [figure |-> FirstEvent, size |-> MAX_RELOCATION_ATTEMPTS],
           [figure |-> OngoingEvent, size |-> MAX_ROWS_TO_SEARCH],
           [figure |-> LateEvent, size |-> 1],
           [figure |-> NearPerson, size |-> 1]}

WithId(fig, i) ==
    [id |-> i, name |-> fig.name, occupation |-> fig.occupation,
     birthYear |-> fig.birthYear, deathYear |-> fig.deathYear,
     category |-> fig.category]

(***************************************************************************)
(* Exclusion filter, priority split and ordering                           *)
(***************************************************************************)
IsExcludedNever(fig) == FALSE

IsExcluded(fig) == fig.category = "EVENTS" /\ Duration(fig) < EXCLUDE_DURATION

\* the figures of list s with birthYear <= b come before position k
RECURSIVE InsertPosition(_, _, _)
InsertPosition(s, fig, k) ==
    IF k > Len(s) THEN k
    ELSE IF s[k].birthYear > fig.birthYear THEN k
    ELSE InsertPosition(s, fig, k + 1)

InsertAt(s, k, e) ==
    [i \in 1..(Len(s) + 1) |-> IF i < k THEN s[i] ELSE IF i = k THEN e ELSE s[i - 1]]

\* Array.prototype.sort((a, b) => a.birthYear - b.birthYear): stable
RECURSIVE SortByBirthYear(_)
SortByBirthYear(s) ==
    IF s = <<>> THEN <<>>
    ELSE LET front == SortByBirthYear(SubSeq(s, 1, Len(s) - 1))
             last  == s[Len(s)]
         IN  InsertAt(front, InsertPosition(front, last, 1), last)

SortAllTogether(figs, prio) ==
    LET Kept(fig) == ~IsExcluded(fig)
    IN  SortByBirthYear(SelectSeq(figs, Kept))

SortStandardFirst(figs, prio) ==
    LET IsPriority(fig) == ~IsExcluded(fig) /\ fig.id \in prio
        IsStandard(fig) == ~IsExcluded(fig) /\ fig.id \notin prio
    IN  SortByBirthYear(SelectSeq(figs, IsStandard))
        \o SortByBirthYear(SelectSeq(figs, IsPriority))

\* sortedFigures = [...priorityFigures, ...standardFigures]
SortFigures(figs, prio) ==
    LET IsPriority(fig) == ~IsExcluded(fig) /\ fig.id \in prio
        IsStandard(fig) == ~IsExcluded(fig) /\ fig.id \notin prio
    IN  SortByBirthYear(SelectSeq(figs, IsPriority))
        \o SortByBirthYear(SelectSeq(figs, IsStandard))

(***************************************************************************)
(* State machine of one layout computation.  The computation is            *)
(* synchronous, so the year the clock shows (now) is the same for every    *)
(* width estimate of one run; it can differ between two runs.              *)
(***************************************************************************)
\* the action bar state of a freshly mounted canvas: no figure hovered, no
\* coordinates, both timer refs null, the flags at their defaults; the
\* pointer is over no bar (0 stands for null / none)
UiInit ==
    /\ isDiscovering = FALSE
    /\ isBusy = FALSE
    /\ relationshipState = FALSE
    /\ hoveredFigureId = 0
    /\ actionBarCoords = FALSE
    /\ hoverTimerRef = "null"
    /\ hoverTimerFigure = 0
    /\ hideTimerRef = "null"
    /\ orphanHideTimers = 0
    /\ pointerOver = 0
    /\ leftEarly = {}

\* let requestQueue = Promise.resolve(): no task enqueued (0 stands for the
\* resolved promise the chain starts from); scenario is the environment of
\* the queue: the errors the API call can throw and the number of calls made
NetInit ==
    /\ requestQueue = 0
    /\ slots = <<>>
    /\ scenario = [errors |-> {}, calls |-> 0]

Init ==
    /\ UiInit
    /\ NetInit
    /\ \E crowd \in Crowds :
         \E n \in 0..(IF crowd.size = 0 THEN MaxItems ELSE MaxCrowdTail) :
         \E chosen \in [1..n -> Catalogue] :
           \E prio \in SUBSET ((crowd.size + 1)..(crowd.size + n)) :
             /\ figures = [i \in 1..(crowd.size + n) |->
                              WithId(IF i <= crowd.size THEN crowd.figure
                                     ELSE chosen[i - crowd.size], i)]
             /\ priorityIds = prio
    /\ now = CurrentYear
    /\ pc = "start"
    /\ sortedFigures = <<>>
    /\ idx = 1
    /\ occupiedRows = <<>>
    /\ occupiedGaps = <<>>
    /\ tempLayout = <<>>
    /\ placedVectors = <<>>
    /\ currentBarLevel = 0
    /\ relocationAttempts = 0
    /\ totalRows = 0
    /\ consoleLog = <<>>
    /\ detected = <<>>
    /\ pass1Level = <<>>
    /\ prevRun = <<>>

\* exclusion filter, priority split, the two sorts and the merge
Prepare ==
    /\ pc = "start"
    /\ LET sorted == SortFigures(figures, priorityIds)
       IN  /\ sortedFigures' = sorted
           /\ pc' = IF sorted = <<>> THEN "pass3" ELSE "pass1"
    /\ UNCHANGED <<uiVars, netVars, figures, priorityIds, now, idx, occupiedRows, occupiedGaps,
                   tempLayout, placedVectors, currentBarLevel, relocationAttempts,
                   totalRows, consoleLog, detected, pass1Level, prevRun>>

\* the first row r >= from whose intervals the footprint misses, Len(rows) if none
RECURSIVE FirstFit(_, _, _, _)
FirstFit(rows, start, end, r) ==
    IF r >= Len(rows) THEN Len(rows)
    ELSE IF ~SomeHit(rows[r + 1], start, end, MARGIN * BASE_PIXELS_PER_YEAR) THEN r
    ELSE FirstFit(rows, start, end, r + 1)


AlwaysNewRow(rows, start, end) == Len(rows)

\* placedLevel: the first row that fits, or a new row
PlacedLevel(rows, start, end) == FirstFit(rows, start, end, 0)

\* Pass 1, one iteration of sortedFigures.forEach
Pass1Place ==
    /\ pc = "pass1"
    /\ idx <= Len(sortedFigures)
    /\ LET fig          == sortedFigures[idx]
           width        == calculateOccupiedWidth(fig, FALSE, now)
           collisionEnd == StartPx(fig) + width
           placedLevel  == PlacedLevel(occupiedRows, StartPx(fig), collisionEnd)
       IN  /\ occupiedRows' = addBarInterval(placedLevel, StartPx(fig), width, occupiedRows)
           /\ tempLayout' = Append(tempLayout,
                  [figure |-> fig, level |-> placedLevel, hasLabel |-> FALSE,
                   labelLevel |-> 0, labelYearOffset |-> 0])
           /\ pass1Level' = Append(pass1Level, placedLevel)
    /\ IF idx = Len(sortedFigures)
       THEN /\ pc' = "pass2"
            /\ idx' = 1
            /\ currentBarLevel' = tempLayout'[1].level
       ELSE /\ pc' = "pass1"
            /\ idx' = idx + 1
            /\ currentBarLevel' = currentBarLevel
    /\ UNCHANGED <<uiVars, netVars, figures, priorityIds, now, sortedFigures, occupiedGaps,
                   placedVectors, relocationAttempts, totalRows, consoleLog,
                   detected, prevRun>>

(***************************************************************************)
(* Pass 2: floating labels of short events, with bar relocation            *)
(***************************************************************************)
P2Item == tempLayout[idx]

\* the gap above / below the current bar row, in half rows
AboveGapLevel == 2 * currentBarLevel - 1
BelowGapLevel == 2 * currentBarLevel + 1

P2LabelWidth == calculateOccupiedWidth(P2Item.figure, TRUE, now)

AbovePlacement ==
    tryPlaceLabelInGap(P2Item.figure, AboveGapLevel, HorizontalOffset(P2Item.figure),
                       P2LabelWidth, currentBarLevel, occupiedGaps, placedVectors)

BelowPlacement ==
    tryPlaceLabelInGap(P2Item.figure, BelowGapLevel, HorizontalOffset(P2Item.figure),
                       P2LabelWidth, currentBarLevel, occupiedGaps, placedVectors)

\* the while condition of the relocation loop (placementSuccessful is false
\* for as long as the item is being processed)
LoopGuardInclusive == relocationAttempts <= MAX_RELOCATION_ATTEMPTS

LoopGuard == relocationAttempts < MAX_RELOCATION_ATTEMPTS

\* tempLayout.forEach moves on to the next item
P2Advance ==
    /\ idx' = idx + 1
    /\ relocationAttempts' = 0
    /\ IF idx = Len(tempLayout)
       THEN pc' = "pass3" /\ currentBarLevel' = 0
       ELSE pc' = "pass2" /\ currentBarLevel' = tempLayout'[idx + 1].level

BarLevelStale(cur, firstLevel) == firstLevel

\* the value assigned to item.level when the label is placed
BarLevelAtSuccess(cur, firstLevel) == cur

\* item.level, item.labelLevel, item.labelYearOffset and the two records of
\* a successful placement in gapLevel
P2Record(gapLevel, visualY) ==
    LET fig == P2Item.figure
    IN  /\ tempLayout' = [tempLayout EXCEPT ![idx] =
               [figure |-> fig,
                level |-> BarLevelAtSuccess(currentBarLevel, P2Item.level),
                hasLabel |-> TRUE, labelLevel |-> gapLevel,
                labelYearOffset |-> HorizontalOffset(fig)]]
        /\ occupiedGaps' = recordLabelInterval(gapLevel,
               StartPx(fig) + HorizontalOffset(fig), P2LabelWidth, occupiedGaps)
        /\ placedVectors' = recordConnectorVector(fig, currentBarLevel,
               HorizontalOffset(fig), visualY, placedVectors)

\* if (!isEvent || !isShort) return;
P2Skip ==
    /\ pc = "pass2"
    /\ ~IsShortEvent(P2Item.figure)
    /\ UNCHANGED <<tempLayout, occupiedRows, occupiedGaps, placedVectors>>
    /\ P2Advance
    /\ UNCHANGED <<uiVars, netVars, figures, priorityIds, now, sortedFigures, totalRows,
                   consoleLog, detected, pass1Level, prevRun>>

P2PlaceAboveAnyItem ==
    /\ pc = "pass2"
    /\ LoopGuard
    /\ AbovePlacement.success
    /\ P2Record(AboveGapLevel, AbovePlacement.visualY)
    /\ P2Advance
    /\ UNCHANGED <<uiVars, netVars, figures, priorityIds, now, sortedFigures, occupiedRows,
                   totalRows, consoleLog, detected, pass1Level, prevRun>>

P2PlaceAbove ==
    /\ pc = "pass2"
    /\ IsShortEvent(P2Item.figure)
    /\ LoopGuard
    /\ AbovePlacement.success
    /\ P2Record(AboveGapLevel, AbovePlacement.visualY)
    /\ P2Advance
    /\ UNCHANGED <<uiVars, netVars, figures, priorityIds, now, sortedFigures, occupiedRows,
                   totalRows, consoleLog, detected, pass1Level, prevRun>>

P2PlaceBelowFirst ==
    /\ pc = "pass2"
    /\ IsShortEvent(P2Item.figure)
    /\ LoopGuard
    /\ BelowPlacement.success
    /\ P2Record(BelowGapLevel, BelowPlacement.visualY)
    /\ P2Advance
    /\ UNCHANGED <<uiVars, netVars, figures, priorityIds, now, sortedFigures, occupiedRows,
                   totalRows, consoleLog, detected, pass1Level, prevRun>>

P2PlaceBelow ==
    /\ pc = "pass2"
    /\ IsShortEvent(P2Item.figure)
    /\ LoopGuard
    /\ ~AbovePlacement.success
    /\ BelowPlacement.success
    /\ P2Record(BelowGapLevel, BelowPlacement.visualY)
    /\ P2Advance
    /\ UNCHANGED <<uiVars, netVars, figures, priorityIds, now, sortedFigures, occupiedRows,
                   totalRows, consoleLog, detected, pass1Level, prevRun>>

\* both gaps blocked: relocate the bar to the next available row
P2Relocate ==
    /\ pc = "pass2"
    /\ IsShortEvent(P2Item.figure)
    /\ LoopGuard
    /\ ~AbovePlacement.success
    /\ ~BelowPlacement.success
    /\ LET fig         == P2Item.figure
           barWidth    == calculateOccupiedWidth(fig, FALSE, now)
           newBarLevel == findNextAvailableRow(fig, currentBarLevel + 1,
                                               occupiedRows, barWidth)
       IN  IF newBarLevel = -1
           THEN \* no available row: a new row at the bottom
                /\ currentBarLevel' = Len(occupiedRows)
                /\ occupiedRows' = Append(occupiedRows,
                       <<[start |-> StartPx(fig), end |-> StartPx(fig) + barWidth,
                          type |-> "bar"]>>)
           ELSE /\ occupiedRows' = addBarInterval(newBarLevel, StartPx(fig), barWidth,
                       removeBarInterval(currentBarLevel, StartPx(fig), occupiedRows))
                /\ currentBarLevel' = newBarLevel
    /\ relocationAttempts' = relocationAttempts + 1
    /\ UNCHANGED <<uiVars, netVars, figures, priorityIds, now, pc, sortedFigures, idx, occupiedGaps,
                   tempLayout, placedVectors, totalRows, consoleLog, detected,
                   pass1Level, prevRun>>

P2EmergencyOnLastRow ==
    /\ pc = "pass2"
    /\ IsShortEvent(P2Item.figure)
    /\ ~LoopGuard
    /\ LET fig               == P2Item.figure
           emergencyBarLevel == Len(occupiedRows) - 1
           emergencyGapLevel == 2 * emergencyBarLevel + 1
           visualY           == emergencyBarLevel * ROW_HEIGHT + 175
       IN  /\ consoleLog' = Append(consoleLog, [kind |-> "failed-to-place", id |-> fig.id])
           /\ tempLayout' = [tempLayout EXCEPT ![idx] =
                  [figure |-> fig, level |-> emergencyBarLevel, hasLabel |-> TRUE,
                   labelLevel |-> emergencyGapLevel,
                   labelYearOffset |-> HorizontalOffset(fig)]]
           /\ occupiedRows' = addBarInterval(emergencyBarLevel, StartPx(fig),
                  calculateOccupiedWidth(fig, FALSE, now), occupiedRows)
           /\ occupiedGaps' = recordLabelInterval(emergencyGapLevel,
                  StartPx(fig) + HorizontalOffset(fig), P2LabelWidth, occupiedGaps)
           /\ placedVectors' = recordConnectorVector(fig, emergencyBarLevel,
                  HorizontalOffset(fig), visualY, placedVectors)
    /\ P2Advance
    /\ UNCHANGED <<uiVars, netVars, figures, priorityIds, now, sortedFigures, totalRows, detected,
                   pass1Level, prevRun>>

\* attempts exhausted: new row for the bar, label in the gap below it, unchecked
P2Emergency ==
    /\ pc = "pass2"
    /\ IsShortEvent(P2Item.figure)
    /\ ~LoopGuard
    /\ LET fig               == P2Item.figure
           emergencyBarLevel == Len(occupiedRows)
           emergencyGapLevel == 2 * emergencyBarLevel + 1
           visualY           == emergencyBarLevel * ROW_HEIGHT + 175
       IN  /\ consoleLog' = Append(consoleLog, [kind |-> "failed-to-place", id |-> fig.id])
           /\ tempLayout' = [tempLayout EXCEPT ![idx] =
                  [figure |-> fig, level |-> emergencyBarLevel, hasLabel |-> TRUE,
                   labelLevel |-> emergencyGapLevel,
                   labelYearOffset |-> HorizontalOffset(fig)]]
           /\ occupiedRows' = Append(occupiedRows,
                  <<[start |-> StartPx(fig),
                     end |-> StartPx(fig) + calculateOccupiedWidth(fig, FALSE, now),
                     type |-> "bar"]>>)
           /\ occupiedGaps' = recordLabelInterval(emergencyGapLevel,
                  StartPx(fig) + HorizontalOffset(fig), P2LabelWidth, occupiedGaps)
           /\ placedVectors' = recordConnectorVector(fig, emergencyBarLevel,
                  HorizontalOffset(fig), visualY, placedVectors)
    /\ P2Advance
    /\ UNCHANGED <<uiVars, netVars, figures, priorityIds, now, sortedFigures, totalRows, detected,
                   pass1Level, prevRun>>

(***************************************************************************)
(* Pass 3: overlap detection and resolution, then the canvas extent        *)
(***************************************************************************)
HasFloatingLabel(item) == IsShortEvent(item.figure) /\ item.hasLabel

\* the ids pushed to overlapsWith for the item at position index
OverlapsWith(layout, index, year) ==
    LET item   == layout[index]
        figure == item.figure
        threshold == OVERLAP_THRESHOLD * BASE_PIXELS_PER_YEAR
        labelWidth == calculateOccupiedWidth(figure, TRUE, year)
        labelStart == StartPx(figure) + item.labelYearOffset
        labelEnd   == labelStart + labelWidth
        labelRow   == item.labelLevel \div 2
        LabelHit(other) ==
            /\ HasFloatingLabel(other)
            /\ Abs(labelRow - (other.labelLevel \div 2)) < 1
            /\ LET otherLabelStart == StartPx(other.figure) + other.labelYearOffset
                   otherLabelEnd   == otherLabelStart
                                      + calculateOccupiedWidth(other.figure, TRUE, year)
               IN  labelStart < otherLabelEnd + threshold
                   /\ labelEnd + threshold > otherLabelStart
        end == StartPx(figure) + calculateOccupiedWidth(figure, FALSE, year)
        StandardHit(other) ==
            /\ item.level = other.level
            /\ ~HasFloatingLabel(other)
            /\ LET otherEnd == StartPx(other.figure)
                               + calculateOccupiedWidth(other.figure, FALSE, year)
               IN  StartPx(figure) < otherEnd + threshold
                   /\ end + threshold > StartPx(other.figure)
        Hit(otherIndex) ==
            /\ otherIndex # index
            /\ IF HasFloatingLabel(item) THEN LabelHit(layout[otherIndex])
                                         ELSE StandardHit(layout[otherIndex])
    IN  SelectSeq([k \in 1..Len(layout) |-> k], Hit)

detectOverlapsStandardOnly(layout, year) ==
    LET Info(index) ==
            [figureId |-> layout[index].figure.id, layoutIndex |-> index,
             overlapsWith |-> OverlapsWith(layout, index, year),
             isFloatingLabel |-> HasFloatingLabel(layout[index])]
        all == [k \in 1..Len(layout) |-> Info(k)]
        NonEmpty(info) == info.overlapsWith # <<>> /\ ~info.isFloatingLabel
    IN  SelectSeq(all, NonEmpty)

detectOverlaps(layout, year) ==
    LET Info(index) ==
            [figureId |-> layout[index].figure.id, layoutIndex |-> index,
             overlapsWith |-> OverlapsWith(layout, index, year),
             isFloatingLabel |-> HasFloatingLabel(layout[index])]
        all == [k \in 1..Len(layout) |-> Info(k)]
        NonEmpty(info) == info.overlapsWith # <<>>
    IN  SelectSeq(all, NonEmpty)

ResolveOneSameRowFallback(st, overlap, year) ==
    LET item    == st.layout[overlap.layoutIndex]
        figure  == item.figure
        level   == item.level
        labelWidth == calculateOccupiedWidth(figure, TRUE, year)
        horizontalOffset  == HorizontalOffset(figure)
        currentLabelLevel == IF item.hasLabel THEN item.labelLevel ELSE 2 * level
        isCurrentlyAbove  == currentLabelLevel < 2 * level
        newGapLevel  == IF isCurrentlyAbove THEN 2 * level + 1 ELSE 2 * level - 1
        newPlacement == tryPlaceLabelInGap(figure, newGapLevel, horizontalOffset,
                            labelWidth, level, st.gaps, st.vectors)
        oldGapIndex  == currentLabelLevel \div 2
        labelStart   == StartPx(figure)
                        + (IF item.hasLabel THEN item.labelYearOffset ELSE horizontalOffset)
        gapsRemoved  ==
            IF oldGapIndex >= 0 /\ oldGapIndex < Len(st.gaps)
            THEN LET intervals == st.gaps[oldGapIndex + 1]
                     intervalIndex == FirstIndex({k \in 1..Len(intervals) :
                                          Abs(intervals[k].start - labelStart) < 1})
                 IN  IF intervalIndex # 0
                     THEN [st.gaps EXCEPT ![oldGapIndex + 1] = RemoveAt(@, intervalIndex)]
                     ELSE st.gaps
            ELSE st.gaps
    IN  IF overlap.isFloatingLabel
        THEN IF newPlacement.success
             THEN [layout  |-> [st.layout EXCEPT ![overlap.layoutIndex] =
                                   [figure |-> figure, level |-> level, hasLabel |-> TRUE,
                                    labelLevel |-> newGapLevel,
                                    labelYearOffset |-> horizontalOffset]],
                   gaps    |-> recordLabelInterval(newGapLevel,
                                   StartPx(figure) + horizontalOffset, labelWidth,
                                   gapsRemoved),
                   vectors |-> recordConnectorVector(figure, level, horizontalOffset,
                                   newPlacement.visualY, st.vectors),
                   log     |-> st.log]
             ELSE [layout  |-> [st.layout EXCEPT ![overlap.layoutIndex] =
                                   [figure |-> figure, level |-> level, hasLabel |-> TRUE,
                                    labelLevel |-> 2 * level,
                                    labelYearOffset |-> horizontalOffset]],
                   gaps    |-> st.gaps,
                   vectors |-> st.vectors,
                   log     |-> Append(st.log,
                                  [kind |-> "unresolved-label", id |-> figure.id])]
        ELSE [st EXCEPT !.log =
                 Append(@, [kind |-> "standard-overlap", id |-> figure.id])]

\* one iteration of sortedOverlaps.forEach on the state st =
\* [layout, gaps, vectors, log]
ResolveOne(st, overlap, year) ==
    LET item    == st.layout[overlap.layoutIndex]
        figure  == item.figure
        level   == item.level
        labelWidth == calculateOccupiedWidth(figure, TRUE, year)
        horizontalOffset  == HorizontalOffset(figure)
        currentLabelLevel == IF item.hasLabel THEN item.labelLevel ELSE 2 * level
        isCurrentlyAbove  == currentLabelLevel < 2 * level
        newGapLevel  == IF isCurrentlyAbove THEN 2 * level + 1 ELSE 2 * level - 1
        newPlacement == tryPlaceLabelInGap(figure, newGapLevel, horizontalOffset,
                            labelWidth, level, st.gaps, st.vectors)
        oldGapIndex  == currentLabelLevel \div 2
        labelStart   == StartPx(figure)
                        + (IF item.hasLabel THEN item.labelYearOffset ELSE horizontalOffset)
        gapsRemoved  ==
            IF oldGapIndex >= 0 /\ oldGapIndex < Len(st.gaps)
            THEN LET intervals == st.gaps[oldGapIndex + 1]
                     intervalIndex == FirstIndex({k \in 1..Len(intervals) :
                                          Abs(intervals[k].start - labelStart) < 1})
                 IN  IF intervalIndex # 0
                     THEN [st.gaps EXCEPT ![oldGapIndex + 1] = RemoveAt(@, intervalIndex)]
                     ELSE st.gaps
            ELSE st.gaps
    IN  IF overlap.isFloatingLabel
        THEN IF newPlacement.success
             THEN [layout  |-> [st.layout EXCEPT ![overlap.layoutIndex] =
                                   [figure |-> figure, level |-> level, hasLabel |-> TRUE,
                                    labelLevel |-> newGapLevel,
                                    labelYearOffset |-> horizontalOffset]],
                   gaps    |-> recordLabelInterval(newGapLevel,
                                   StartPx(figure) + horizontalOffset, labelWidth,
                                   gapsRemoved),
                   vectors |-> recordConnectorVector(figure, level, horizontalOffset,
                                   newPlacement.visualY, st.vectors),
                   log     |-> st.log]
             ELSE [st EXCEPT !.log =
                      Append(@, [kind |-> "unresolved-label", id |-> figure.id])]
        ELSE [st EXCEPT !.log =
                 Append(@, [kind |-> "standard-overlap", id |-> figure.id])]

RECURSIVE ResolveFrom(_, _, _, _)
ResolveFrom(st, overlaps, k, year) ==
    IF k > Len(overlaps) THEN st
    ELSE ResolveFrom(ResolveOne(st, overlaps[k], year), overlaps, k + 1, year)

\* floating labels first, otherwise in detection order
resolveOverlaps(st, overlaps, year) ==
    LET IsFloating(o) == o.isFloatingLabel
        IsStandard(o) == ~o.isFloatingLabel
        sortedOverlaps == SelectSeq(overlaps, IsFloating) \o SelectSeq(overlaps, IsStandard)
    IN  ResolveFrom(st, sortedOverlaps, 1, year)

HighestBarIndex(rowCount, gapCount) == rowCount - 1

ComputeTotalRowsFloor(rowCount, gapCount) ==
    Max(2 * rowCount, 2 * gapCount + 1) \div 2

\* Math.ceil(Math.max(occupiedRows.length, occupiedGaps.length + 0.5))
ComputeTotalRows(rowCount, gapCount) ==
    (Max(2 * rowCount, 2 * gapCount + 1) + 1) \div 2

Pass3 ==
    /\ pc = "pass3"
    /\ detected' = detectOverlaps(tempLayout, now)
    /\ LET st == [layout |-> tempLayout, gaps |-> occupiedGaps,
                  vectors |-> placedVectors, log |-> consoleLog]
           resolved == IF Len(detected') > 0
                       THEN resolveOverlaps(st, detected', now)
                       ELSE st
       IN  /\ tempLayout' = resolved.layout
           /\ occupiedGaps' = resolved.gaps
           /\ placedVectors' = resolved.vectors
           /\ consoleLog' = resolved.log
    /\ totalRows' = ComputeTotalRows(Len(occupiedRows), Len(occupiedGaps'))
    /\ pc' = "done"
    /\ UNCHANGED <<uiVars, netVars, figures, priorityIds, now, sortedFigures, idx, occupiedRows,
                   currentBarLevel, relocationAttempts, pass1Level, prevRun>>

(***************************************************************************)
(* The caller computes the layout again, possibly in a later year          *)
(***************************************************************************)
LayoutResult == [layoutData |-> tempLayout, totalRows |-> totalRows]

Relayout ==
    /\ pc = "done"
    /\ prevRun = <<>>
    /\ prevRun' = <<LayoutResult>>
    /\ \E later \in {0, 1} : now' = now + later
    /\ pc' = "start"
    /\ sortedFigures' = <<>>
    /\ idx' = 1
    /\ occupiedRows' = <<>>
    /\ occupiedGaps' = <<>>
    /\ tempLayout' = <<>>
    /\ placedVectors' = <<>>
    /\ currentBarLevel' = 0
    /\ relocationAttempts' = 0
    /\ totalRows' = 0
    /\ consoleLog' = <<>>
    /\ detected' = <<>>
    /\ pass1Level' = <<>>
    /\ UNCHANGED <<uiVars, netVars, figures, priorityIds>>

Next ==
    \/ Prepare
    \/ Pass1Place
    \/ P2Skip
    \/ P2PlaceAbove
    \/ P2PlaceBelow
    \/ P2Relocate
    \/ P2Emergency
    \/ Pass3

Spec == Init /\ [][Next]_vars

\* the same, with the layout computed a second time
NextRerun == Next \/ Relayout

SpecRerun == Init /\ [][NextRerun]_vars

(***************************************************************************)
(* Pass 3 on its own.  Pass 2 registers a label only where the gap is free *)
(* under a margin wider than the audit's threshold, and the audit uses the *)
(* same width estimates, so after Pass 2 the audit finds nothing to do.    *)
(* Its detection and resolution are therefore also applied to layouts      *)
(* drawn from a bounded set, overlapping ones included: figures in         *)
(* ascending start order, each with a bar row and, for a short event, its  *)
(* label in the gap above or below the bar; the rows, gaps and connectors  *)
(* are registered the way Pass 1 and Pass 2 register them.                 *)
(***************************************************************************)
AuditCatalogue == {FirstEvent, SecondEvent, OngoingEvent}

AuditItem(fig, level, below) ==
    IF IsShortEvent(fig)
    THEN [figure |-> fig, level |-> level, hasLabel |-> TRUE,
          labelLevel |-> IF below THEN 2 * level + 1 ELSE 2 * level - 1,
          labelYearOffset |-> HorizontalOffset(fig)]
    ELSE [figure |-> fig, level |-> level, hasLabel |-> FALSE,
          labelLevel |-> 0, labelYearOffset |-> 0]

\* occupiedRows, occupiedGaps and placedVectors after the first k items of
\* a layout have been registered
RECURSIVE RegisteredRows(_, _, _)
RegisteredRows(layout, k, year) ==
    IF k = 0 THEN <<>>
    ELSE addBarInterval(layout[k].level, StartPx(layout[k].figure),
                        calculateOccupiedWidth(layout[k].figure, FALSE, year),
                        RegisteredRows(layout, k - 1, year))

RECURSIVE RegisteredGaps(_, _, _)
RegisteredGaps(layout, k, year) ==
    IF k = 0 THEN <<>>
    ELSE IF ~layout[k].hasLabel THEN RegisteredGaps(layout, k - 1, year)
    ELSE recordLabelInterval(layout[k].labelLevel,
                             StartPx(layout[k].figure) + layout[k].labelYearOffset,
                             calculateOccupiedWidth(layout[k].figure, TRUE, year),
                             RegisteredGaps(layout, k - 1, year))

RECURSIVE RegisteredVectors(_, _)
RegisteredVectors(layout, k) ==
    IF k = 0 THEN <<>>
    ELSE IF ~layout[k].hasLabel THEN RegisteredVectors(layout, k - 1)
    ELSE recordConnectorVector(layout[k].figure, layout[k].level,
                               layout[k].labelYearOffset,
                               (layout[k].labelLevel \div 2) * ROW_HEIGHT + 175,
                               RegisteredVectors(layout, k - 1))

InitAudit ==
    /\ \E n \in 1..MaxAudit :
         \E chosen \in [1..n -> AuditCatalogue] :
           /\ \A i \in 1..(n - 1) : chosen[i].birthYear <= chosen[i + 1].birthYear
           /\ \E levels \in [1..n -> 0..MaxAuditRow] :
                \E below \in [1..n -> BOOLEAN] :
                  /\ \A i \in 1..n :
                        IF IsShortEvent(chosen[i]) /\ levels[i] >= 1
                        THEN TRUE ELSE below[i]
                  /\ figures = [i \in 1..n |-> WithId(chosen[i], i)]
                  /\ tempLayout = [i \in 1..n |->
                         AuditItem(WithId(chosen[i], i), levels[i], below[i])]
                  /\ pass1Level = levels
                  /\ idx = n + 1
    /\ priorityIds = {}
    /\ now = CurrentYear
    /\ pc = "pass3"
    /\ sortedFigures = figures
    /\ occupiedRows = RegisteredRows(tempLayout, Len(tempLayout), now)
    /\ occupiedGaps = RegisteredGaps(tempLayout, Len(tempLayout), now)
    /\ placedVectors = RegisteredVectors(tempLayout, Len(tempLayout))
    /\ currentBarLevel = 0
    /\ relocationAttempts = 0
    /\ totalRows = 0
    /\ consoleLog = <<>>
    /\ detected = <<>>
    /\ prevRun = <<>>
    /\ UiInit
    /\ NetInit

NextAudit == Pass3

SpecAudit == InitAudit /\ [][NextAudit]_vars

(***************************************************************************)
(* Discovery action bar: hover handlers of the bars, the two timers and    *)
(* the render guard.  The layout is the finished layout of two standard    *)
(* elements; a timer is a ref that is "null", "pending" (scheduled, not    *)
(* fired, not cleared) or "stale" (the handle of a timer that has fired).  *)
(***************************************************************************)
MaxOrphanHideTimers == 1

\* the pointer is over the action bar itself
ActionBarSpot == -1

HoverFigures == <<WithId(EarlyPerson, 1), WithId(FuturePerson, 2)>>

\* layoutData and the rest of the layout state after the run on HoverFigures
LayoutDone ==
    /\ figures = HoverFigures
    /\ priorityIds = {}
    /\ now = CurrentYear
    /\ pc = "done"
    /\ sortedFigures = HoverFigures
    /\ idx = 3
    /\ occupiedRows =
          addBarInterval(0, StartPx(FuturePerson),
              calculateOccupiedWidth(FuturePerson, FALSE, CurrentYear),
              addBarInterval(0, StartPx(EarlyPerson),
                  calculateOccupiedWidth(EarlyPerson, FALSE, CurrentYear), <<>>))
    /\ occupiedGaps = <<>>
    /\ tempLayout = [i \in 1..2 |->
          [figure |-> HoverFigures[i], level |-> 0, hasLabel |-> FALSE,
           labelLevel |-> 0, labelYearOffset |-> 0]]
    /\ placedVectors = <<>>
    /\ currentBarLevel = 0
    /\ relocationAttempts = 0
    /\ totalRows = ComputeTotalRows(1, 0)
    /\ consoleLog = <<>>
    /\ detected = <<>>
    /\ pass1Level = <<0, 0>>
    /\ prevRun = <<>>

InitHover ==
    /\ LayoutDone
    /\ UiInit
    /\ NetInit

\* the figures that have a bar on the canvas
BarIds == {tempLayout[i].figure.id : i \in 1..Len(tempLayout)}

\* the render guard of the ActionBar (the three callbacks are provided)
RenderGuard(hovered, coords, discovering, relationship, busy) ==
    /\ hovered \in BarIds
    /\ coords
    /\ ~discovering
    /\ ~relationship
    /\ ~busy

ActionBarVisible ==
    RenderGuard(hoveredFigureId, actionBarCoords, isDiscovering, relationshipState, isBusy)

\* hideTimerRef.current = setTimeout(..., 200): a timer that is still pending
\* loses its handle and stays scheduled
SetHideTimer ==
    /\ hideTimerRef' = "pending"
    /\ orphanHideTimers' = IF hideTimerRef = "pending" THEN orphanHideTimers + 1
                           ELSE orphanHideTimers

\* if (hideTimerRef.current) { clearTimeout(hideTimerRef.current); hideTimerRef.current = null }
ClearHideTimer ==
    /\ hideTimerRef' = "null"
    /\ orphanHideTimers' = orphanHideTimers

\* onPointerEnter of a bar: handleBarEnter(e, figureId)
PointerEnterBar ==
    /\ pointerOver = 0
    /\ \E figureId \in BarIds :
          /\ pointerOver' = figureId
          /\ leftEarly' = leftEarly \ {figureId}
          /\ IF isDiscovering \/ isBusy
             THEN UNCHANGED <<hoverTimerRef, hoverTimerFigure, hideTimerRef,
                              orphanHideTimers>>
             ELSE /\ ClearHideTimer
                  /\ IF hoveredFigureId # figureId
                     THEN hoverTimerRef' = "pending" /\ hoverTimerFigure' = figureId
                     ELSE UNCHANGED <<hoverTimerRef, hoverTimerFigure>>
    /\ UNCHANGED <<layoutVars, netVars, isDiscovering, isBusy, relationshipState,
                   hoveredFigureId, actionBarCoords>>

\* onPointerLeave of a bar: handleBarLeave()
PointerLeaveBar ==
    /\ pointerOver \in BarIds
    /\ pointerOver' = 0
    /\ leftEarly' = IF hoverTimerRef = "pending" /\ hoverTimerFigure = pointerOver
                    THEN leftEarly \cup {pointerOver} ELSE leftEarly
    /\ IF isDiscovering \/ isBusy
       THEN UNCHANGED <<hoverTimerRef, hoverTimerFigure, hideTimerRef, orphanHideTimers>>
       ELSE /\ hideTimerRef = "pending" => orphanHideTimers < MaxOrphanHideTimers
            /\ hoverTimerRef' = "null"
            /\ hoverTimerFigure' = 0
            /\ SetHideTimer
    /\ UNCHANGED <<layoutVars, netVars, isDiscovering, isBusy, relationshipState,
                   hoveredFigureId, actionBarCoords>>

\* the action bar is unmounted under the pointer when the guard turns false
PointerAfterRender(hovered, coords, discovering, relationship, busy) ==
    IF pointerOver = ActionBarSpot
       /\ ~RenderGuard(hovered, coords, discovering, relationship, busy)
    THEN 0 ELSE pointerOver

\* the callback of the 500 ms timer set by handleBarEnter
HoverTimerFires ==
    /\ hoverTimerRef = "pending"
    /\ hoveredFigureId' = hoverTimerFigure
    /\ actionBarCoords' = TRUE
    /\ hoverTimerRef' = "stale"
    /\ hoverTimerFigure' = 0
    /\ pointerOver' = PointerAfterRender(hoveredFigureId', TRUE, isDiscovering,
                                         relationshipState, isBusy)
    /\ UNCHANGED <<layoutVars, netVars, isDiscovering, isBusy, relationshipState,
                   hideTimerRef, orphanHideTimers, leftEarly>>

\* the callback of a 200 ms timer set by handleBarLeave or handleActionBarLeave
HideTimerFires ==
    /\ \/ /\ hideTimerRef = "pending"
          /\ hideTimerRef' = "stale"
          /\ orphanHideTimers' = orphanHideTimers
       \/ /\ orphanHideTimers > 0
          /\ orphanHideTimers' = orphanHideTimers - 1
          /\ hideTimerRef' = hideTimerRef
    /\ hoveredFigureId' = 0
    /\ actionBarCoords' = FALSE
    /\ pointerOver' = IF pointerOver = ActionBarSpot THEN 0 ELSE pointerOver
    /\ UNCHANGED <<layoutVars, netVars, isDiscovering, isBusy, relationshipState,
                   hoverTimerRef, hoverTimerFigure, leftEarly>>

\* onMouseEnter of the action bar: handleActionBarEnter()
PointerEnterActionBar ==
    /\ ActionBarVisible
    /\ pointerOver = 0
    /\ pointerOver' = ActionBarSpot
    /\ ClearHideTimer
    /\ UNCHANGED <<layoutVars, netVars, isDiscovering, isBusy, relationshipState,
                   hoveredFigureId, actionBarCoords, hoverTimerRef, hoverTimerFigure,
                   leftEarly>>

\* onMouseLeave of the action bar: handleActionBarLeave()
PointerLeaveActionBar ==
    /\ pointerOver = ActionBarSpot
    /\ pointerOver' = 0
    /\ IF isDiscovering
       THEN UNCHANGED <<hideTimerRef, orphanHideTimers>>
       ELSE /\ hideTimerRef = "pending" => orphanHideTimers < MaxOrphanHideTimers
            /\ SetHideTimer
    /\ UNCHANGED <<layoutVars, netVars, isDiscovering, isBusy, relationshipState,
                   hoveredFigureId, actionBarCoords, hoverTimerRef, hoverTimerFigure,
                   leftEarly>>

\* the parent re-renders the canvas with another isDiscovering, isBusy or
\* relationshipState
SetDiscovering ==
    /\ isDiscovering' = ~isDiscovering
    /\ pointerOver' = PointerAfterRender(hoveredFigureId, actionBarCoords,
                                         isDiscovering', relationshipState, isBusy)
    /\ UNCHANGED <<layoutVars, netVars, isBusy, relationshipState, hoveredFigureId,
                   actionBarCoords, hoverTimerRef, hoverTimerFigure, hideTimerRef,
                   orphanHideTimers, leftEarly>>

SetBusy ==
    /\ isBusy' = ~isBusy
    /\ pointerOver' = PointerAfterRender(hoveredFigureId, actionBarCoords,
                                         isDiscovering, relationshipState, isBusy')
    /\ UNCHANGED <<layoutVars, netVars, isDiscovering, relationshipState,
                   hoveredFigureId, actionBarCoords, hoverTimerRef, hoverTimerFigure,
                   hideTimerRef, orphanHideTimers, leftEarly>>

SetRelationshipState ==
    /\ relationshipState' = ~relationshipState
    /\ pointerOver' = PointerAfterRender(hoveredFigureId, actionBarCoords,
                                         isDiscovering, relationshipState', isBusy)
    /\ UNCHANGED <<layoutVars, netVars, isDiscovering, isBusy, hoveredFigureId,
                   actionBarCoords, hoverTimerRef, hoverTimerFigure, hideTimerRef,
                   orphanHideTimers, leftEarly>>

NextHover ==
    \/ PointerEnterBar
    \/ PointerLeaveBar
    \/ HoverTimerFires
    \/ HideTimerFires
    \/ PointerEnterActionBar
    \/ PointerLeaveActionBar
    \/ SetDiscovering
    \/ SetBusy
    \/ SetRelationshipState

SpecHover == InitHover /\ [][NextHover]_vars

(***************************************************************************)
(* Request queue (services/utils.ts): enqueueTask, runWithRetry and        *)
(* safeAICall.  Slot t is the t-th call of safeAICall: its promise, the     *)
(* frame of runWithRetry that is active for it, and the timer it awaits.   *)
(* An error is a record of the fields the classification reads; a message  *)
(* is the set of the searched substrings it contains.                      *)
(***************************************************************************)
MaxTasks == 3

DEFAULT_RETRIES == 5
DEFAULT_BACKOFF == 3000
QUEUE_BUFFER_MS == 1000

NoNested == [code |-> 0, status |-> "none"]

Err(status, code, message, nested) ==
    [status |-> status, code |-> code, message |-> message, error |-> nested]

Status429 == Err(429, 0, {}, NoNested)
Status503 == Err(503, 0, {}, NoNested)
Status500 == Err(500, 0, {}, NoNested)
Code429 == Err(0, 429, {}, NoNested)
Message429 == Err(0, 0, {"429"}, NoNested)
MessageResourceExhausted == Err(0, 0, {"RESOURCE_EXHAUSTED"}, NoNested)
MessageQuota == Err(0, 0, {"quota"}, NoNested)
NestedCode429 == Err(0, 0, {}, [code |-> 429, status |-> ""])
NestedResourceExhausted == Err(0, 0, {}, [code |-> 0, status |-> "RESOURCE_EXHAUSTED"])
NestedBadRequest == Err(400, 0, {}, [code |-> 400, status |-> "INVALID_ARGUMENT"])
PlainError == Err(0, 0, {}, NoNested)

ErrorCatalogue ==
    {Status429, Status503, Status500, Code429, Message429, MessageResourceExhausted,
     MessageQuota, NestedCode429, NestedResourceExhausted, NestedBadRequest, PlainError}

\* one call whose API call can throw any error of the catalogue, or several
\* queued calls whose API call can be rate limited or fail for another reason
Scenarios ==
    {[errors |-> ErrorCatalogue, calls |-> 1],
     [errors |-> {Status429, PlainError}, calls |-> MaxTasks]}

\* the classification of runWithRetry's catch block
isRateLimit(err) ==
    \/ err.status = 429 \/ err.status = 503
    \/ err.code = 429
    \/ "429" \in err.message
    \/ "RESOURCE_EXHAUSTED" \in err.message
    \/ "quota" \in err.message
    \/ /\ err.error # NoNested
       /\ err.error.code = 429 \/ err.error.status = "RESOURCE_EXHAUSTED"

CanRetryOnceMore(retries) == retries >= 0

\* retries > 0
CanRetry(retries) == retries > 0

ChainAfterNone(tail) == 0

\* requestQueue.then(...): the promise the new slot is chained to
ChainAfter(tail) == tail

QueueTailUncaught(outcome) == outcome

\* result.catch(() => {}): the tail of the queue is fulfilled however the
\* slot settled
QueueTail(outcome) == "fulfilled"

NoError == [status |-> 0, code |-> 0, message |-> {}, error |-> NoNested,
            task |-> 0, attempt |-> 0]

\* the error err thrown by invocation attempt of the API call of slot task
Thrown(err, task, attempt) ==
    [status |-> err.status, code |-> err.code, message |-> err.message,
     error |-> err.error, task |-> task, attempt |-> attempt]

Settled(slot) == slot.phase \in {"fulfilled", "rejected"}

InitQueue ==
    /\ UiInit
    /\ requestQueue = 0
    /\ slots = <<>>
    /\ scenario \in Scenarios
    /\ figures = <<>>
    /\ priorityIds = {}
    /\ now = CurrentYear
    /\ pc = "start"
    /\ sortedFigures = <<>>
    /\ idx = 1
    /\ occupiedRows = <<>>
    /\ occupiedGaps = <<>>
    /\ tempLayout = <<>>
    /\ placedVectors = <<>>
    /\ currentBarLevel = 0
    /\ relocationAttempts = 0
    /\ totalRows = 0
    /\ consoleLog = <<>>
    /\ detected = <<>>
    /\ pass1Level = <<>>
    /\ prevRun = <<>>

\* safeAICall(apiCall) = enqueueTask(() => runWithRetry(apiCall)): the
\* synchronous part of enqueueTask
Enqueue ==
    /\ Len(slots) < scenario.calls
    /\ slots' = Append(slots,
          [phase |-> "queued", after |-> ChainAfter(requestQueue), retries |-> 0,
           backoff |-> 0, invocations |-> 0, timer |-> 0, error |-> NoError,
           result |-> 0])
    /\ requestQueue' = Len(slots) + 1
    /\ UNCHANGED <<layoutVars, uiVars, scenario>>

\* the promise a slot is chained to has settled: the callback passed to
\* then() starts and awaits wait(1000); a rejected promise would reject the
\* slot without running the callback
BeginSlot ==
    /\ \E t \in 1..Len(slots) :
          /\ slots[t].phase = "queued"
          /\ slots[t].after # 0 => Settled(slots[slots[t].after])
          /\ IF slots[t].after = 0
                \/ QueueTail(slots[slots[t].after].phase) = "fulfilled"
             THEN slots' = [slots EXCEPT ![t].phase = "buffer",
                                         ![t].timer = QUEUE_BUFFER_MS]
             ELSE slots' = [slots EXCEPT ![t].phase = "rejected",
                                         ![t].error = slots[slots[t].after].error]
    /\ UNCHANGED <<layoutVars, uiVars, requestQueue, scenario>>

\* wait(1000) is over: task() calls runWithRetry(apiCall), which calls fn()
BufferElapsed ==
    /\ \E t \in 1..Len(slots) :
          /\ slots[t].phase = "buffer"
          /\ slots' = [slots EXCEPT ![t].phase = "calling",
                                    ![t].timer = 0,
                                    ![t].retries = DEFAULT_RETRIES,
                                    ![t].backoff = DEFAULT_BACKOFF,
                                    ![t].invocations = 1]
    /\ UNCHANGED <<layoutVars, uiVars, requestQueue, scenario>>

\* fn() resolves: runWithRetry returns its value, the slot is fulfilled
FnResolves ==
    /\ \E t \in 1..Len(slots) :
          /\ slots[t].phase = "calling"
          /\ slots' = [slots EXCEPT ![t].phase = "fulfilled",
                                    ![t].result = t,
                                    ![t].retries = 0,
                                    ![t].backoff = 0,
                                    ![t].invocations = 0]
    /\ UNCHANGED <<layoutVars, uiVars, requestQueue, scenario>>

\* fn() rejects: the catch block of runWithRetry
FnRejects ==
    /\ \E t \in 1..Len(slots) : \E err \in scenario.errors :
          /\ slots[t].phase = "calling"
          /\ IF CanRetry(slots[t].retries) /\ isRateLimit(err)
             THEN slots' = [slots EXCEPT
                      ![t].phase = "backoff",
                      ![t].timer = slots[t].backoff,
                      ![t].error = Thrown(err, t, slots[t].invocations)]
             ELSE slots' = [slots EXCEPT
                      ![t].phase = "rejected",
                      ![t].error = Thrown(err, t, slots[t].invocations),
                      ![t].retries = 0,
                      ![t].backoff = 0,
                      ![t].invocations = 0]
    /\ UNCHANGED <<layoutVars, uiVars, requestQueue, scenario>>

\* wait(backoff) is over: runWithRetry(fn, retries - 1, backoff * 2) calls fn()
BackoffElapsed ==
    /\ \E t \in 1..Len(slots) :
          /\ slots[t].phase = "backoff"
          /\ slots' = [slots EXCEPT ![t].phase = "calling",
                                    ![t].timer = 0,
                                    ![t].error = NoError,
                                    ![t].retries = slots[t].retries - 1,
                                    ![t].backoff = slots[t].backoff * 2,
                                    ![t].invocations = slots[t].invocations + 1]
    /\ UNCHANGED <<layoutVars, uiVars, requestQueue, scenario>>

NextQueue ==
    \/ Enqueue
    \/ BeginSlot
    \/ BufferElapsed
    \/ FnResolves
    \/ FnRejects
    \/ BackoffElapsed

SpecQueue == InitQueue /\ [][NextQueue]_vars

\* the event loop runs every callback whose promise has settled or whose
\* timer has elapsed, and every API call settles
SpecQueueFair ==
    /\ SpecQueue
    /\ WF_vars(BeginSlot)
    /\ WF_vars(BufferElapsed)
    /\ WF_vars(BackoffElapsed)
    /\ WF_vars(FnResolves \/ FnRejects)

(***************************************************************************)
(* Properties                                                              *)
(***************************************************************************)
Items == 1..Len(tempLayout)

Labelled == {i \in Items : tempLayout[i].hasLabel}

\* the bar footprint [start, start + width] of a figure in the final layout
BarStart(i) == StartPx(tempLayout[i].figure)
BarEnd(i) == BarStart(i) + calculateOccupiedWidth(tempLayout[i].figure, FALSE, now)

BarsCollide(i, j) ==
    /\ BarStart(i) < BarEnd(j) + MARGIN * BASE_PIXELS_PER_YEAR
    /\ BarEnd(i) + MARGIN * BASE_PIXELS_PER_YEAR > BarStart(j)

EmergencyIds == {consoleLog[k].id : k \in {n \in 1..Len(consoleLog) :
                                             consoleLog[n].kind = "failed-to-place"}}

\* the connector of a placed floating label: bar anchor and label anchor
ConnectorFrom(i) ==
    [x |-> StartPx(tempLayout[i].figure), y |-> tempLayout[i].level * ROW_HEIGHT + 80]
ConnectorTo(i) ==
    [x |-> StartPx(tempLayout[i].figure) + tempLayout[i].labelYearOffset,
     y |-> (tempLayout[i].labelLevel \div 2) * ROW_HEIGHT + 175]

\* C1: two layout computations on the same item list give the same placement
\* records and the same totalRows, whenever they are made.
C1_Determinism ==
    (pc = "done" /\ prevRun # <<>>) => prevRun[1] = LayoutResult

\* C2: in the final layout two distinct items on the same bar row never have
\* overlapping footprints under the bar margin, relocated bars included.
C2_NoBarCollisions ==
    pc = "done" =>
        \A i \in Items : \A j \in Items :
            (i # j /\ tempLayout[i].level = tempLayout[j].level) => ~BarsCollide(i, j)

\* a relocated bar ends on a row it shares with another bar
C2_Witness ==
    /\ pc = "done"
    /\ \E i \in Items : \E j \in Items :
          /\ i # j
          /\ tempLayout[i].level = tempLayout[j].level
          /\ tempLayout[i].level # pass1Level[i]

\* C3: every floating label placed without the emergency fallback lies
\* exactly half a row above or below its bar's final row.
C3_ImmediateGap ==
    \A i \in Labelled :
        tempLayout[i].figure.id \notin EmergencyIds
            => Abs(tempLayout[i].labelLevel - 2 * tempLayout[i].level) = 1

\* a label placed by the loop after its bar was relocated
C3_Witness ==
    /\ pc = "done"
    /\ \E i \in Labelled :
          /\ tempLayout[i].figure.id \notin EmergencyIds
          /\ tempLayout[i].level # pass1Level[i]

\* C4: at the end of the run no two connectors of different items intersect.
C4_NoConnectorCrossing ==
    pc = "done" =>
        \A i \in Labelled : \A j \in Labelled :
            i # j => ~linesIntersect(ConnectorFrom(i), ConnectorTo(i),
                                     ConnectorFrom(j), ConnectorTo(j))

\* a final layout with an emergency placement and other connectors
C4_Witness ==
    /\ pc = "done"
    /\ EmergencyIds # {}
    /\ Cardinality(Labelled) >= 3

\* C5: exactly one placement record for every input item except events with
\* span below 3, each with a bar row that is a natural number; label fields
\* are present exactly for the short events.
C5_CompletePlacement ==
    pc = "done" =>
        /\ \A k \in 1..Len(figures) :
              Cardinality({i \in Items : tempLayout[i].figure = figures[k]})
                 = (IF figures[k].category = "EVENTS"
                       /\ figures[k].deathYear - figures[k].birthYear < 3
                    THEN 0 ELSE 1)
        /\ \A i \in Items :
              /\ tempLayout[i].level \in Nat
              /\ tempLayout[i].hasLabel <=>
                    (tempLayout[i].figure.category = "EVENTS"
                     /\ tempLayout[i].figure.deathYear - tempLayout[i].figure.birthYear < 15)

\* an input with an excluded event, a short event and a standard element
C5_Witness ==
    /\ pc = "done"
    /\ Len(tempLayout) < Len(figures)
    /\ Labelled # {}
    /\ Labelled # Items

\* an upper bound on the number of steps the run still has to take
Rank ==
    CASE pc = "start" -> 3 + Len(figures) * (MAX_RELOCATION_ATTEMPTS + 3)
      [] pc = "pass1" -> 3 + (Len(sortedFigures) - idx)
                           + Len(sortedFigures) * (MAX_RELOCATION_ATTEMPTS + 1)
      [] pc = "pass2" -> 2 + (Len(tempLayout) - idx) * (MAX_RELOCATION_ATTEMPTS + 1)
                           + (MAX_RELOCATION_ATTEMPTS - relocationAttempts)
      [] pc = "pass3" -> 1
      [] OTHER -> 0

\* the run has an item to work on, or the audit to do
CanStep ==
    \/ pc = "start"
    \/ pc = "pass1" /\ idx \in 1..Len(sortedFigures)
    \/ pc = "pass2" /\ idx \in 1..Len(tempLayout)
    \/ pc = "pass3"

\* C6: the computation terminates: the relocation counter of Pass 2 never
\* exceeds MAX_RELOCATION_ATTEMPTS, the run can go on until it is done, and
\* every step lowers a bound on the steps that remain.
C6_Termination ==
    /\ [](/\ relocationAttempts <= MAX_RELOCATION_ATTEMPTS
          /\ Rank >= 0
          /\ pc # "done" => CanStep)
    /\ [][Rank' < Rank]_vars

\* the relocation budget of an item is used up
C6_Witness ==
    /\ pc = "pass2"
    /\ relocationAttempts = MAX_RELOCATION_ATTEMPTS

\* C7: totalRows is at least every barRow and every labelRow returned.
C7_TotalRowsCovers ==
    pc = "done" =>
        \A i \in Items :
            /\ totalRows >= tempLayout[i].level
            /\ tempLayout[i].hasLabel => 2 * totalRows >= tempLayout[i].labelLevel

\* a label in the gap below the bottom row
C7_Witness ==
    /\ pc = "done"
    /\ \E i \in Labelled : tempLayout[i].labelLevel = 2 * Len(occupiedRows) - 1

IsPriority(fig) == fig.id \in priorityIds

\* C8: Pass 1 processes the priority items in ascending start order, then the
\* others in ascending start order; an earliest priority item ends on row 0
\* and a non-priority item colliding with it ends on a later row.
C8_PriorityFirst ==
    /\ \A i \in 1..(Len(sortedFigures) - 1) :
          \* neighbours suffice: the order of any two items follows from them
          LET j == i + 1
          IN  /\ IsPriority(sortedFigures[j]) => IsPriority(sortedFigures[i])
              /\ IsPriority(sortedFigures[i]) = IsPriority(sortedFigures[j])
                    => sortedFigures[i].birthYear <= sortedFigures[j].birthYear
    /\ \A i \in Items : tempLayout[i].figure = sortedFigures[i]
    /\ pc # "start" =>
          \A k \in 1..Len(figures) :
              ~(figures[k].category = "EVENTS"
                /\ figures[k].deathYear - figures[k].birthYear < 3)
                 => \E i \in 1..Len(sortedFigures) : sortedFigures[i] = figures[k]
    /\ (pc = "done" /\ \E i \in Items : IsPriority(tempLayout[i].figure)) =>
          \E p \in Items :
              /\ IsPriority(tempLayout[p].figure)
              /\ \A q \in Items : IsPriority(tempLayout[q].figure)
                    => tempLayout[p].figure.birthYear <= tempLayout[q].figure.birthYear
              /\ tempLayout[p].level = 0
              /\ \A n \in Items :
                    (~IsPriority(tempLayout[n].figure) /\ BarsCollide(n, p))
                        => tempLayout[n].level > 0

\* a non-priority item that starts earlier than the priority item on row 0
\* and collides with it
C8_Witness ==
    /\ pc = "done"
    /\ \E p \in Items : \E n \in Items :
          /\ IsPriority(tempLayout[p].figure)
          /\ ~IsPriority(tempLayout[n].figure)
          /\ tempLayout[n].figure.birthYear < tempLayout[p].figure.birthYear
          /\ BarsCollide(n, p)
          /\ tempLayout[p].level = 0
          /\ tempLayout[n].level > 0

\* the footprint of the figure Pass 1 is about to place hits row r
Pass1Hits(r) ==
    LET fig == sortedFigures[idx]
        end == StartPx(fig) + calculateOccupiedWidth(fig, FALSE, now)
    IN  \E k \in 1..Len(occupiedRows[r + 1]) :
           /\ StartPx(fig) < occupiedRows[r + 1][k].end + MARGIN * BASE_PIXELS_PER_YEAR
           /\ end + MARGIN * BASE_PIXELS_PER_YEAR > occupiedRows[r + 1][k].start

\* C9: Pass 1 gives each item the lowest existing row its footprint does not
\* hit, and appends a row (index = row count) only when it hits every row.
C9_FirstFit ==
    [][(pc = "pass1" /\ Len(tempLayout') = Len(tempLayout) + 1) =>
          LET placedLevel == tempLayout'[idx].level
              fig == sortedFigures[idx]
          IN  /\ placedLevel \in 0..Len(occupiedRows)
              /\ \A r \in 0..(placedLevel - 1) : Pass1Hits(r)
              /\ placedLevel < Len(occupiedRows) => ~Pass1Hits(placedLevel)
              /\ Len(occupiedRows') =
                    (IF placedLevel = Len(occupiedRows) THEN Len(occupiedRows) + 1
                     ELSE Len(occupiedRows))
              /\ \E k \in 1..Len(occupiedRows'[placedLevel + 1]) :
                    occupiedRows'[placedLevel + 1][k] =
                       [start |-> StartPx(fig),
                        end |-> StartPx(fig) + calculateOccupiedWidth(fig, FALSE, now),
                        type |-> "bar"]]_vars

\* two standard items with overlapping footprints on rows 0 and 1, and a
\* third item placed on row 0 beside the first
C9_Witness ==
    /\ pc = "pass2"
    /\ Len(tempLayout) = 3
    /\ tempLayout[1].level = 0
    /\ tempLayout[2].level = 1
    /\ tempLayout[3].level = 0
    /\ ~IsShortEvent(tempLayout[1].figure)
    /\ ~IsShortEvent(tempLayout[2].figure)

\* C10: no floating label is ever placed above row 0, and a single short
\* event gets barRow 0 and labelRow 0.5.
C10_NoLabelAboveRowZero ==
    /\ \A i \in Labelled : tempLayout[i].labelLevel >= 1
    /\ (pc = "done" /\ Len(tempLayout) = 1 /\ IsShortEvent(tempLayout[1].figure)) =>
          /\ tempLayout[1].level = 0
          /\ tempLayout[1].hasLabel
          /\ tempLayout[1].labelLevel = 1

\* a lone short event has been laid out
C10_Witness ==
    /\ pc = "done"
    /\ Len(tempLayout) = 1
    /\ IsShortEvent(tempLayout[1].figure)
    /\ tempLayout[1].labelLevel = 1

\* the item Pass 2 is working on is a short event
P2Working == pc = "pass2" /\ idx \in 1..Len(tempLayout) /\ IsShortEvent(tempLayout[idx].figure)

\* the label of the item Pass 2 is working on does not fit into gap g (half
\* rows) with its bar on row r: negative gap, label overlap or connector crossing
GapRejects(g, r) ==
    LET fig        == tempLayout[idx].figure
        labelStart == fig.birthYear * BASE_PIXELS_PER_YEAR + HorizontalOffset(fig)
        labelEnd   == labelStart + calculateOccupiedWidth(fig, TRUE, now)
        gapIndex   == g \div 2
    IN  \/ g < 0
        \/ /\ gapIndex < Len(occupiedGaps)
           /\ \E k \in 1..Len(occupiedGaps[gapIndex + 1]) :
                 /\ labelStart < occupiedGaps[gapIndex + 1][k].end
                                    + LABEL_MARGIN * BASE_PIXELS_PER_YEAR
                 /\ labelEnd + LABEL_MARGIN * BASE_PIXELS_PER_YEAR
                       > occupiedGaps[gapIndex + 1][k].start
        \/ \E v \in 1..Len(placedVectors) :
              linesIntersect(
                  [x |-> fig.birthYear * BASE_PIXELS_PER_YEAR, y |-> r * ROW_HEIGHT + 80],
                  [x |-> labelStart, y |-> gapIndex * ROW_HEIGHT + 175],
                  [x |-> placedVectors[v].x1, y |-> placedVectors[v].y1],
                  [x |-> placedVectors[v].x2, y |-> placedVectors[v].y2])

\* the step is a placement made by the loop of Pass 2 (not the fallback)
PlacedByLoop ==
    /\ P2Working
    /\ idx' # idx
    /\ consoleLog' = consoleLog

\* the step is a bar relocation
Relocated == P2Working /\ relocationAttempts' = relocationAttempts + 1

\* C11: the gap above is tried before the gap below: a label placed by the
\* loop with its bar on row r is at r + 0.5 only if gap r - 0.5 rejected it,
\* it is at r - 0.5 whenever that gap accepts it, and the bar is relocated
\* only when both gaps rejected it.
C11_GapAboveFirst ==
    [][/\ PlacedByLoop =>
            LET r == tempLayout'[idx].level
            IN  /\ r = currentBarLevel
                /\ tempLayout'[idx].labelLevel \in {2 * r - 1, 2 * r + 1}
                /\ tempLayout'[idx].labelLevel = 2 * r + 1 => GapRejects(2 * r - 1, r)
                /\ tempLayout'[idx].labelLevel = 2 * r - 1 => ~GapRejects(2 * r - 1, r)
       /\ (P2Working /\ relocationAttempts < MAX_RELOCATION_ATTEMPTS
              /\ ~GapRejects(2 * currentBarLevel - 1, currentBarLevel)) =>
            /\ PlacedByLoop
            /\ tempLayout'[idx].labelLevel = 2 * currentBarLevel - 1
       /\ Relocated =>
            /\ GapRejects(2 * currentBarLevel - 1, currentBarLevel)
            /\ GapRejects(2 * currentBarLevel + 1, currentBarLevel)]_vars

\* a relocated bar with its label in the gap above, and a label in the gap
\* below an upper row that was free
C11_Witness ==
    /\ pc = "done"
    /\ \E i \in Labelled : \E j \in Labelled :
          /\ tempLayout[i].level # pass1Level[i]
          /\ tempLayout[i].labelLevel = 2 * tempLayout[i].level - 1
          /\ tempLayout[j].labelLevel = 2 * tempLayout[j].level + 1

\* C12: every bar relocation of Pass 2 is followed by a label-placement
\* attempt (gap above, then gap below) at the new row before the item is
\* relocated again or handed to the emergency fallback: after a relocation
\* the loop goes round once more for the same item, which tries both gaps of
\* the row the bar is on now.
C12_RelocationThenAttempt ==
    [][Relocated =>
          /\ pc' = "pass2"
          /\ idx' = idx
          /\ relocationAttempts' < MAX_RELOCATION_ATTEMPTS]_vars

\* the retry budget of the item Pass 2 is working on is used up
BudgetExhausted == P2Working /\ relocationAttempts >= MAX_RELOCATION_ATTEMPTS

\* warnings that a label could not be placed, in a log
FailedWarnings(log) == {k \in 1..Len(log) : log[k].kind = "failed-to-place"}

\* C13: when the retry budget is exhausted without a placement the bar goes
\* to a newly appended bottom row (index = row count before) holding no other
\* interval, the label goes unchecked into the gap right below that row, and
\* a warning naming the item is emitted; the warning is emitted in no other case.
C13_EmergencyFallback ==
    [][/\ BudgetExhausted =>
            LET fig        == tempLayout[idx].figure
                barStart   == fig.birthYear * BASE_PIXELS_PER_YEAR
                labelStart == barStart + HorizontalOffset(fig)
                row        == Len(occupiedRows)
            IN  /\ tempLayout'[idx].level = row
                /\ Len(occupiedRows') = row + 1
                /\ \A r \in 1..row : occupiedRows'[r] = occupiedRows[r]
                /\ occupiedRows'[row + 1] =
                      <<[start |-> barStart,
                         end |-> barStart + calculateOccupiedWidth(fig, FALSE, now),
                         type |-> "bar"]>>
                /\ tempLayout'[idx].hasLabel
                /\ tempLayout'[idx].labelLevel = 2 * row + 1
                /\ Len(occupiedGaps') > row
                /\ \E k \in 1..Len(occupiedGaps'[row + 1]) :
                      occupiedGaps'[row + 1][k] =
                         [start |-> labelStart,
                          end |-> labelStart + calculateOccupiedWidth(fig, TRUE, now)]
                /\ consoleLog' = Append(consoleLog,
                                        [kind |-> "failed-to-place", id |-> fig.id])
       /\ FailedWarnings(consoleLog') # FailedWarnings(consoleLog) => BudgetExhausted]_vars

\* an item placed by the fallback, with the warning that names it
C13_Witness ==
    /\ pc = "done"
    /\ \E i \in Labelled :
          /\ tempLayout[i].figure.id \in EmergencyIds
          /\ tempLayout[i].level = Len(occupiedRows) - 1
          /\ tempLayout[i].labelLevel = 2 * tempLayout[i].level + 1

\* two label intervals overlap under the label margin
LabelsOverlap(a, b) ==
    /\ a.start < b.end + LABEL_MARGIN * BASE_PIXELS_PER_YEAR
    /\ a.end + LABEL_MARGIN * BASE_PIXELS_PER_YEAR > b.start

\* C14: at every point of the run no two label intervals registered in the
\* same gap overlap under the label margin 10.
C14_NoLabelOverlapInGap ==
    \A g \in 1..Len(occupiedGaps) :
        \A k \in 1..Len(occupiedGaps[g]) : \A m \in 1..Len(occupiedGaps[g]) :
            k # m => ~LabelsOverlap(occupiedGaps[g][k], occupiedGaps[g][m])

\* a gap that holds two labels
C14_Witness ==
    \E g \in 1..Len(occupiedGaps) : Len(occupiedGaps[g]) >= 2

\* C15: during one run the number of rows and the number of gaps never
\* decrease; a row is only appended at index = current row count, and an
\* existing row is never removed or renumbered: each of its intervals stays
\* in it, except the bar of the item that is being relocated.
C15_RowsOnlyAppended ==
    [][/\ Len(occupiedRows') \in {Len(occupiedRows), Len(occupiedRows) + 1}
       /\ Len(occupiedGaps') >= Len(occupiedGaps)
       /\ \A r \in 1..Len(occupiedRows) : \A k \in 1..Len(occupiedRows[r]) :
             \/ \E m \in 1..Len(occupiedRows'[r]) : occupiedRows'[r][m] = occupiedRows[r][k]
             \/ /\ Relocated
                /\ r = currentBarLevel + 1
                /\ occupiedRows[r][k].start
                      = tempLayout[idx].figure.birthYear * BASE_PIXELS_PER_YEAR]_vars

\* a relocation has left a row without any bar, below it are other rows
C15_Witness ==
    /\ pc = "done"
    /\ \E r \in 1..Len(occupiedRows) : occupiedRows[r] = <<>> /\ r < Len(occupiedRows)

\* an item that is not a short event: not an event, or spanning 15 years or more
NotShortEvent(i) ==
    ~(tempLayout[i].figure.category = "EVENTS"
      /\ tempLayout[i].figure.deathYear - tempLayout[i].figure.birthYear < SHORT_DURATION)

\* C16: Pass 2 acts on short events only: an item that is not a short event
\* keeps the row Pass 1 gave it, its bar interval stays on that row, and it
\* never receives a labelRow or a connector.
C16_Pass2ShortEventsOnly ==
    \A i \in Items :
        NotShortEvent(i) =>
            LET fig   == tempLayout[i].figure
                start == fig.birthYear * BASE_PIXELS_PER_YEAR
            IN  /\ tempLayout[i].level = pass1Level[i]
                /\ ~tempLayout[i].hasLabel
                /\ \E k \in 1..Len(occupiedRows[pass1Level[i] + 1]) :
                      occupiedRows[pass1Level[i] + 1][k] =
                         [start |-> start,
                          end |-> start + calculateOccupiedWidth(fig, FALSE, now),
                          type |-> "bar"]
                /\ ~\E v \in 1..Len(placedVectors) :
                      /\ placedVectors[v].x1 = start
                      /\ placedVectors[v].x2 = start + HorizontalOffset(fig)

\* a final layout where the bar of a short event was relocated to the row of
\* an item that is not a short event and lies below row 0
C16_Witness ==
    /\ pc = "done"
    /\ \E i \in Items : \E j \in Labelled :
          /\ NotShortEvent(i)
          /\ tempLayout[i].level >= 1
          /\ tempLayout[j].level = tempLayout[i].level
          /\ tempLayout[j].level # pass1Level[j]

\* warnings of one kind in the log, as the set of item ids they name
Warned(log, kind) == {log[k].id : k \in {n \in 1..Len(log) : log[n].kind = kind}}

\* items i and j are standard elements on the same row whose footprints
\* overlap under the audit's threshold
StandardOverlap(i, j) ==
    LET a == tempLayout[i].figure
        b == tempLayout[j].figure
        aStart == a.birthYear * BASE_PIXELS_PER_YEAR
        bStart == b.birthYear * BASE_PIXELS_PER_YEAR
    IN  /\ i # j
        /\ ~tempLayout[i].hasLabel
        /\ ~tempLayout[j].hasLabel
        /\ tempLayout[i].level = tempLayout[j].level
        /\ aStart < bStart + calculateOccupiedWidth(b, FALSE, now)
                       + OVERLAP_THRESHOLD * BASE_PIXELS_PER_YEAR
        /\ aStart + calculateOccupiedWidth(a, FALSE, now)
              + OVERLAP_THRESHOLD * BASE_PIXELS_PER_YEAR > bStart

\* C17: Pass 3 never changes a barRow and never adds, removes or moves a bar
\* interval: an overlap between standard elements only produces a warning,
\* and a floating label that cannot be moved to the opposite gap keeps its
\* labelRow and labelOffset.
C17_Pass3KeepsBars ==
    [][pc = "pass3" =>
          /\ occupiedRows' = occupiedRows
          /\ Len(tempLayout') = Len(tempLayout)
          /\ \A i \in Items :
                /\ tempLayout'[i].figure = tempLayout[i].figure
                /\ tempLayout'[i].level = tempLayout[i].level
                /\ ~tempLayout[i].hasLabel => tempLayout'[i] = tempLayout[i]
                /\ (\E j \in Items : StandardOverlap(i, j)) =>
                      tempLayout[i].figure.id \in Warned(consoleLog', "standard-overlap")
                /\ tempLayout[i].figure.id \in Warned(consoleLog', "unresolved-label") =>
                      /\ tempLayout'[i].hasLabel
                      /\ tempLayout'[i].labelLevel = tempLayout[i].labelLevel
                      /\ tempLayout'[i].labelYearOffset = tempLayout[i].labelYearOffset]_vars

\* the audit has warned about two standard elements on one row and about a
\* floating label it could not move
C17_Witness ==
    /\ pc = "done"
    /\ Warned(consoleLog, "standard-overlap") # {}
    /\ Warned(consoleLog, "unresolved-label") # {}

\* the label interval [start + offset, start + offset + labelWidth] of item i
LabelStart(i) ==
    tempLayout[i].figure.birthYear * BASE_PIXELS_PER_YEAR + tempLayout[i].labelYearOffset
LabelEnd(i) == LabelStart(i) + calculateOccupiedWidth(tempLayout[i].figure, TRUE, now)

\* the gap index of the label of item i
GapIndex(i) == tempLayout[i].labelLevel \div 2

\* the labels of items i and j overlap under the audit's threshold 2
LabelsClose(i, j) ==
    /\ i # j
    /\ LabelStart(i) < LabelEnd(j) + OVERLAP_THRESHOLD * BASE_PIXELS_PER_YEAR
    /\ LabelEnd(i) + OVERLAP_THRESHOLD * BASE_PIXELS_PER_YEAR > LabelStart(j)

\* item i is flagged by the detection of the step as a floating label
Flagged(i) ==
    \E d \in 1..Len(detected') :
        detected'[d].layoutIndex = i /\ detected'[d].isFloatingLabel

SameLabelStart(layout, i) ==
    {j \in 1..Len(layout) :
        /\ layout[j].hasLabel
        /\ layout[j].figure.birthYear = layout[i].figure.birthYear
        /\ layout[j].labelYearOffset = layout[i].labelYearOffset}

\* the gap intervals and the connectors registered for labels that start
\* where the label of item i starts
GapIntervalsOf(layout, gaps, i) ==
    {p \in UNION {{<<g, k>> : k \in 1..Len(gaps[g])} : g \in 1..Len(gaps)} :
        gaps[p[1]][p[2]].start = layout[i].figure.birthYear * BASE_PIXELS_PER_YEAR
                                    + layout[i].labelYearOffset}

ConnectorsOf(layout, vectors, i) ==
    {v \in 1..Len(vectors) :
        /\ vectors[v].x1 = layout[i].figure.birthYear * BASE_PIXELS_PER_YEAR
        /\ vectors[v].x2 = vectors[v].x1 + layout[i].labelYearOffset}

GapsInUse == {g \in 0..(Len(occupiedGaps) - 1) : occupiedGaps[g + 1] # <<>>}

\* ceil(max(rowCount, gapTerm + 0.5)) = rows, stated on half rows: rows is the
\* least integer that is at least rowCount and at least gapTerm + 0.5
IsCeilOfMax(rows, rowCount, gapTerm) ==
    /\ 2 * rows >= 2 * rowCount
    /\ 2 * rows >= 2 * gapTerm + 1
    /\ 2 * (rows - 1) < 2 * rowCount \/ 2 * (rows - 1) < 2 * gapTerm + 1

\* C20 as stated: totalRows = ceil(max(occupiedRowCount, maxGapIndex + 0.5))
\* where maxGapIndex is the highest gap index in use at the end of the run.
C20_TotalRowsFromHighestGap ==
    (pc = "done" /\ GapsInUse # {}) =>
        LET maxGapIndex == CHOOSE g \in GapsInUse : \A h \in GapsInUse : h <= g
        IN  IsCeilOfMax(totalRows, Len(occupiedRows), maxGapIndex)

\* C20 (amended): totalRows = ceil(max(occupiedRowCount, gapCount + 0.5))
\* where gapCount is the number of gaps at the end of the run, i.e. one more
\* than the highest gap index ever registered (0 when there is none).
C20_TotalRowsFromGapCount ==
    pc = "done" => IsCeilOfMax(totalRows, Len(occupiedRows), Len(occupiedGaps))

\* a final layout with as many gaps as rows, the last gap in use
C20_Witness ==
    /\ pc = "done"
    /\ Len(occupiedRows) >= 2
    /\ Len(occupiedGaps) = Len(occupiedRows)
    /\ Len(occupiedGaps) - 1 \in GapsInUse

\* the row the bar of item i is on: the working row for the item Pass 2 is
\* processing, the recorded level otherwise
CurrentRow(i) == IF pc = "pass2" /\ i = idx THEN currentBarLevel ELSE tempLayout[i].level

\* bar intervals starting at s registered on row r, and items whose bar starts
\* at s and is on row r
BarIntervalsAt(r, s) ==
    IF r < 0 \/ r >= Len(occupiedRows) THEN 0
    ELSE Cardinality({k \in 1..Len(occupiedRows[r + 1]) :
                         /\ occupiedRows[r + 1][k].type = "bar"
                         /\ occupiedRows[r + 1][k].start = s})
ItemsAt(r, s) == Cardinality({i \in Items : CurrentRow(i) = r /\ BarStart(i) = s})

\* C22: during Pass 2 and afterwards every item has exactly one bar interval
\* in the row occupancy state, on its current bar row: each row holds as many
\* bar intervals of a footprint as there are items with that footprint on it.
C22_OneBarInterval ==
    pc \in {"pass2", "pass3", "done"} =>
        /\ \A i \in Items : BarIntervalsAt(CurrentRow(i), BarStart(i)) >= 1
        /\ \A r \in 0..(Len(occupiedRows) - 1) :
             \A k \in 1..Len(occupiedRows[r + 1]) :
                occupiedRows[r + 1][k].type = "bar" =>
                   BarIntervalsAt(r, occupiedRows[r + 1][k].start)
                      = ItemsAt(r, occupiedRows[r + 1][k].start)

\* row r of the occupancy state is free for the bar of the item Pass 2 is
\* working on: it does not exist yet, or none of its intervals is within the
\* bar margin of the bar's footprint
RowFreeForBar(r) ==
    LET fig      == tempLayout[idx].figure
        barStart == fig.birthYear * BASE_PIXELS_PER_YEAR
        barEnd   == barStart + calculateOccupiedWidth(fig, FALSE, now)
    IN  \/ r >= Len(occupiedRows)
        \/ \A k \in 1..Len(occupiedRows[r + 1]) :
              \/ barStart >= occupiedRows[r + 1][k].end + MARGIN * BASE_PIXELS_PER_YEAR
              \/ barEnd + MARGIN * BASE_PIXELS_PER_YEAR <= occupiedRows[r + 1][k].start

\* the rows of the bounded forward scan that are free for the bar
FreeRowsInScan ==
    {r \in (currentBarLevel + 1)..(currentBarLevel + MAX_ROWS_TO_SEARCH) : RowFreeForBar(r)}

\* a relocation happens only after both gaps of the current row rejected the
\* label; it takes the bar to the least free row of the scan, or to a newly
\* appended bottom row when the scan has none, and always to a higher index
RelocationTarget ==
    Relocated =>
        /\ GapRejects(2 * currentBarLevel - 1, currentBarLevel)
        /\ GapRejects(2 * currentBarLevel + 1, currentBarLevel)
        /\ IF FreeRowsInScan # {}
           THEN /\ currentBarLevel' \in FreeRowsInScan
                /\ \A r \in FreeRowsInScan : currentBarLevel' <= r
           ELSE /\ currentBarLevel' = Len(occupiedRows)
                /\ Len(occupiedRows') = Len(occupiedRows) + 1
        /\ currentBarLevel' > currentBarLevel

\* short events never end above the row Pass 1 gave them
ShortEventsNotAbovePass1 ==
    pc = "done" =>
        \A i \in Items :
            IsShortEvent(tempLayout[i].figure) => tempLayout[i].level >= pass1Level[i]

\* C23: when both gaps of the current row are rejected the bar moves to the
\* first row of [currentBarRow+1, currentBarRow+20] that is free under margin 6
\* (a row that does not exist yet is free), or to a new bottom row if there is
\* none; every relocation strictly increases the row index and the final row
\* of a short event is at least its Pass-1 row.
C23_RelocationForward == [][RelocationTarget]_vars /\ []ShortEventsNotAbovePass1

\* a relocation that passed over a colliding row and landed on an existing row
C23_Witness ==
    /\ P2Working
    /\ relocationAttempts = 1
    /\ currentBarLevel > pass1Level[idx] + 1
    /\ currentBarLevel + 1 < Len(occupiedRows)

CandidateCrosses(g, r) ==
    LET fig  == tempLayout[idx].figure
        from == [x |-> fig.birthYear * BASE_PIXELS_PER_YEAR, y |-> r * ROW_HEIGHT + 80]
        to   == [x |-> fig.birthYear * BASE_PIXELS_PER_YEAR + HorizontalOffset(fig),
                 y |-> (g \div 2) * ROW_HEIGHT + 175]
    IN  \E v \in 1..Len(placedVectors) :
           linesIntersect(from, to,
                          [x |-> placedVectors[v].x1, y |-> placedVectors[v].y1],
                          [x |-> placedVectors[v].x2, y |-> placedVectors[v].y2])

\* the label of the item Pass 2 is working on is within the label margin of
\* an interval recorded in gap g (half rows)
CandidateOverlaps(g) ==
    LET fig        == tempLayout[idx].figure
        labelStart == fig.birthYear * BASE_PIXELS_PER_YEAR + HorizontalOffset(fig)
        labelEnd   == labelStart + calculateOccupiedWidth(fig, TRUE, now)
        gapIndex   == g \div 2
    IN  /\ gapIndex < Len(occupiedGaps)
        /\ \E k \in 1..Len(occupiedGaps[gapIndex + 1]) :
              /\ labelStart < occupiedGaps[gapIndex + 1][k].end
                                 + LABEL_MARGIN * BASE_PIXELS_PER_YEAR
              /\ labelEnd + LABEL_MARGIN * BASE_PIXELS_PER_YEAR
                    > occupiedGaps[gapIndex + 1][k].start

\* C28: the connector-crossing test never rejects a candidate: whenever
\* Pass 2 works on a short event, the segment from its bar to either gap of
\* its current row crosses no recorded connector, and a gap that rejects the
\* label is gap -0.5 or holds an interval within the label margin.
C28_CrossingNeverRejects ==
    P2Working =>
        /\ AboveGapLevel >= 0 => ~CandidateCrosses(AboveGapLevel, currentBarLevel)
        /\ ~CandidateCrosses(BelowGapLevel, currentBarLevel)
        /\ ~AbovePlacement.success => (AboveGapLevel < 0 \/ CandidateOverlaps(AboveGapLevel))
        /\ ~BelowPlacement.success => CandidateOverlaps(BelowGapLevel)

\* Pass 2 works on a short event whose row already carries the connector of
\* another short event, and whose gap above ends the connector of a third
C28_Witness ==
    /\ P2Working
    /\ \E v \in 1..Len(placedVectors) :
          placedVectors[v].y1 = currentBarLevel * ROW_HEIGHT + 80
    /\ \E v \in 1..Len(placedVectors) :
          /\ placedVectors[v].y1 # currentBarLevel * ROW_HEIGHT + 80
          /\ placedVectors[v].y2 = (currentBarLevel - 1) * ROW_HEIGHT + 175

\* there are at most as many gaps as rows, and every floating label is in a
\* gap whose index is at most the index of its bar row, which exists
GapsWithinRows ==
    /\ Len(occupiedGaps) <= Len(occupiedRows)
    /\ \A i \in Labelled :
          /\ GapIndex(i) <= CurrentRow(i)
          /\ CurrentRow(i) < Len(occupiedRows)

\* the gap below the bottom row has been allocated
BottomGapAllocated == Len(occupiedRows) >= 1 /\ Len(occupiedGaps) >= Len(occupiedRows)

\* the emergency fallback registers its label in a gap that did not exist
\* before, the one below the row it has just appended
EmergencyGapFresh ==
    Cardinality(FailedWarnings(consoleLog')) > Cardinality(FailedWarnings(consoleLog)) =>
        /\ Len(occupiedRows') = Len(occupiedRows) + 1
        /\ Len(occupiedGaps) < Len(occupiedRows')
        /\ Len(occupiedGaps') = Len(occupiedRows')
        /\ Len(occupiedGaps'[Len(occupiedRows')]) = 1

\* C29 as stated: there are never more gaps than rows, and the returned
\* totalRows is the row count, or the row count plus one exactly when the gap
\* below the bottom row has been allocated.
C29_ExtraRowIffBottomGap ==
    /\ GapsWithinRows
    /\ pc = "done" =>
          /\ totalRows \in {Len(occupiedRows), Len(occupiedRows) + 1}
          /\ (totalRows = Len(occupiedRows) + 1) <=> BottomGapAllocated

\* C29 (amended): there are never more gaps than rows, the emergency gap is
\* a fresh gap with index = row count - 1 after the push, and the returned
\* totalRows is the row count, or the row count plus one exactly when there
\* are as many gaps as rows: the gap below the bottom row has been allocated,
\* or the layout has no row at all.
C29_ExtraRowIffGapsEqualRows ==
    /\ []GapsWithinRows
    /\ [][EmergencyGapFresh]_vars
    /\ [](pc = "done" =>
            /\ totalRows \in {Len(occupiedRows), Len(occupiedRows) + 1}
            /\ (totalRows = Len(occupiedRows) + 1)
                   <=> (BottomGapAllocated \/ Len(occupiedRows) = 0))

\* a run that used the emergency fallback and returns one row more than the
\* row count
C29_Witness ==
    /\ pc = "done"
    /\ EmergencyIds # {}
    /\ totalRows = Len(occupiedRows) + 1

\* the rows Pass 1 gives to the figures of a sorted list, from position k on,
\* starting from the row occupancy rows
RECURSIVE Pass1Levels(_, _, _, _)
Pass1Levels(sorted, k, rows, levels) ==
    IF k > Len(sorted) THEN levels
    ELSE LET fig   == sorted[k]
             width == calculateOccupiedWidth(fig, FALSE, now)
             level == PlacedLevel(rows, StartPx(fig), StartPx(fig) + width)
         IN  Pass1Levels(sorted, k + 1,
                         addBarInterval(level, StartPx(fig), width, rows),
                         Append(levels, level))

\* the input reduced to its priority items
PriorityItemsOnly ==
    LET InPriority(fig) == fig.id \in priorityIds
    IN  SelectSeq(figures, InPriority)

\* the row of the figure with identifier id when the list figs is laid out
\* with the priority set prio
ReferenceRow(figs, prio, id) ==
    LET sorted == SortFigures(figs, prio)
        levels == Pass1Levels(sorted, 1, <<>>, <<>>)
        k      == CHOOSE n \in 1..Len(sorted) : sorted[n].id = id
    IN  levels[k]

\* C30: the final barRow of a priority item that is not a short event is the
\* row it gets when the priority items are laid out alone: it is a function
\* of the priority items only, whatever the non-priority items are.
C30_PriorityRowsIndependent ==
    pc = "done" =>
        \A i \in Items :
            (IsPriority(tempLayout[i].figure) /\ ~IsShortEvent(tempLayout[i].figure)) =>
                tempLayout[i].level
                   = ReferenceRow(PriorityItemsOnly, priorityIds, tempLayout[i].figure.id)

\* a run with a priority item that is not a short event, in which a
\* non-priority item is on another row than in the run without priorities
C30_Witness ==
    /\ pc = "done"
    /\ \E i \in Items :
          IsPriority(tempLayout[i].figure) /\ ~IsShortEvent(tempLayout[i].figure)
    /\ \E j \in Items :
          /\ ~IsPriority(tempLayout[j].figure)
          /\ ~IsShortEvent(tempLayout[j].figure)
          /\ tempLayout[j].level # ReferenceRow(figures, {}, tempLayout[j].figure.id)

\* C21: once the pointer has left a bar while that bar's hover timer was
\* still pending, the action bar for that bar is not visible, until the
\* pointer enters the bar again (leftEarly holds exactly those bars).
C21_LeaveCancelsShow ==
    \A b \in leftEarly : ~(ActionBarVisible /\ hoveredFigureId = b)

\* slot t occupies the queue: it is in its 1000 ms buffer, in an API call or
\* in a backoff wait
Executing(t) == slots[t].phase \in {"buffer", "calling", "backoff"}

\* C24: tasks passed to enqueueTask are serialized in FIFO order: at most one
\* slot is executing at any time, a slot leaves the queued state only when
\* every slot enqueued before it has settled, and while a call is in one of
\* its attempts or backoff waits every later call is still queued.
C24_FifoSerialized ==
    /\ Cardinality({t \in 1..Len(slots) : Executing(t)}) <= 1
    /\ \A t \in 1..Len(slots) :
          slots[t].phase # "queued" => \A u \in 1..(t - 1) : Settled(slots[u])
    /\ \A t \in 1..Len(slots) :
          Executing(t) => \A u \in (t + 1)..Len(slots) : slots[u].phase = "queued"

\* the first call has settled, the second is waiting between two attempts,
\* the third is queued behind it
C24_Witness ==
    /\ Len(slots) >= 3
    /\ Settled(slots[1])
    /\ slots[2].phase = "backoff"
    /\ slots[2].invocations >= 2
    /\ slots[3].phase = "queued"

\* the promise of slot t has settled with the outcome of its own task: the
\* value of its own call, or the error thrown by one of its own attempts
OwnOutcome(t) ==
    \/ slots[t].phase = "fulfilled" /\ slots[t].result = t
    \/ slots[t].phase = "rejected" /\ slots[t].error.task = t

\* no slot ever settles with the outcome of another slot
OnlyOwnOutcomes ==
    \A t \in 1..Len(slots) : Settled(slots[t]) => OwnOutcome(t)

\* C25: a failed task does not block the queue: a rejection is delivered to
\* the caller of the task that failed and to no other, and every enqueued
\* task, before or after a failure, eventually starts and delivers its own
\* result (every API call settling).
C25_FailureDoesNotBlock ==
    /\ []OnlyOwnOutcomes
    /\ \A t \in 1..MaxTasks :
          (Len(slots) >= t) ~> (Len(slots) >= t /\ OwnOutcome(t))

\* a call that was rejected, followed by a call that was fulfilled
C25_Witness ==
    /\ Len(slots) >= 2
    /\ slots[1].phase = "rejected"
    /\ slots[2].phase = "fulfilled"

\* the classification as the claim words it: status 429 or 503, code 429,
\* RESOURCE_EXHAUSTED, or a message mentioning 429 or quota
ClaimedRateLimit(err) ==
    \/ err.status \in {429, 503}
    \/ err.code = 429 \/ err.error.code = 429
    \/ "RESOURCE_EXHAUSTED" \in err.message \/ err.error.status = "RESOURCE_EXHAUSTED"
    \/ "429" \in err.message \/ "quota" \in err.message

\* one step of slot t seen from runWithRetry
RetryStep(t) ==
    LET before == slots[t]
        after  == slots'[t]
    IN  /\ after.invocations <= DEFAULT_RETRIES + 1
        \* a re-invocation follows a rate-limit error and a backoff wait that
        \* starts at 3000 ms and doubles with every retry
        /\ (before.invocations >= 1 /\ after.invocations = before.invocations + 1) =>
              /\ before.phase = "backoff"
              /\ ClaimedRateLimit(before.error)
              /\ before.error.attempt = before.invocations
              /\ before.timer = DEFAULT_BACKOFF * 2 ^ (before.invocations - 1)
        \* a failed attempt is retried exactly when its error is a rate-limit
        \* error and it is not the last allowed attempt; otherwise its own
        \* error is rethrown at once
        /\ (before.phase = "calling" /\ after.phase = "backoff") =>
              /\ ClaimedRateLimit(after.error)
              /\ before.invocations <= DEFAULT_RETRIES
        /\ (before.phase = "calling" /\ after.phase = "rejected") =>
              /\ after.error.task = t
              /\ after.error.attempt = before.invocations
              /\ \/ ~ClaimedRateLimit(after.error)
                 \/ before.invocations = DEFAULT_RETRIES + 1

====
